---------------------------- MODULE Spec2Model ----------------------------
(***************************************************************************)
(* Table reconstruction engine of the Nepali PDF extractor                 *)
(* (lib/table.ts, lib/text.ts).                                            *)
(*                                                                         *)
(* Strings are sequences of Unicode code points, so that the regular       *)
(* expressions of the source become predicates on characters.  JavaScript  *)
(* numbers are modelled as exact rationals <<num, den>> in lowest terms    *)
(* with den > 0: the running averages and midpoints of the source are      *)
(* computed exactly (floating-point rounding is not modelled).             *)
(***************************************************************************)
EXTENDS Integers, Sequences, FiniteSets

VARIABLES
    pc,          \* position of the run under study
    preetiIn,    \* maybePreetiToUnicode: the argument
    preetiConv,  \* the outcome of the legacy converter on that argument
    preetiOut,   \* maybePreetiToUnicode: the value returned
    csvTable,    \* toCsv: the argument (rows of cells)
    csvText,     \* toCsv: the string returned
    frags,       \* groupIntoRows: the fragment list passed in
    fresh,       \* a copy of the fragment list taken before the engine ran
    yTol,        \* groupIntoRows: yTolerance
    grouped,     \* groupIntoRows: the rows returned
    rows,        \* rows handed to the splitter / the column inferencer / the assembler
    exploded,    \* explodeMultiRecordRows: the rows returned
    headerIdx,   \* findHeaderRowIndex result, or the headerIdx argument
    header,      \* inferColumnStopsFromDataRows: <<headerRow>>, or <<>> when not given
    stops,       \* column stops inferred or passed in
    table,       \* collectMainTable: the table returned
    ui,          \* usePdfExtractor: the values held by useState
    lastTable,   \* lastTableRef.current: <<>> for null, <<table>> otherwise
    lastBaseName,\* lastBaseNameRef.current
    extractRunId,\* extractRunIdRef.current
    runs,        \* the calls of onPdfChange that reached their first await, with
                 \* their position and their locals normalizedRows, headerIdx, stops
    downloads    \* the files handed to downloadBlob, oldest first

vars == <<pc, preetiIn, preetiConv, preetiOut, csvTable, csvText, frags, fresh, yTol,
          grouped, rows, exploded, headerIdx, header, stops, table,
          ui, lastTable, lastBaseName, extractRunId, runs, downloads>>

-----------------------------------------------------------------------------
(* Sequences *)

Range(s) == {s[i] : i \in DOMAIN s}

Last(s) == s[Len(s)]

RECURSIVE Flatten(_)
Flatten(ss) == IF ss = <<>> THEN <<>> ELSE Head(ss) \o Flatten(Tail(ss))

\* Array.prototype.join
RECURSIVE Join(_, _)
Join(ss, sep) ==
    IF ss = <<>> THEN <<>>
    ELSE IF Len(ss) = 1 THEN ss[1]
    ELSE ss[1] \o sep \o Join(Tail(ss), sep)

\* Array.prototype.sort with a comparator: stable (ECMAScript 2019), so an
\* element is inserted after every element it does not sort before.
InsertSorted(s, e, before(_, _)) ==
    LET notAfter == {k \in DOMAIN s : ~before(e, s[k])}
        k == IF notAfter = {} THEN 0
             ELSE CHOOSE m \in notAfter : \A n \in notAfter : n <= m
    IN SubSeq(s, 1, k) \o <<e>> \o SubSeq(s, k + 1, Len(s))

StableSort(s, before(_, _)) ==
    LET f[i \in 0..Len(s)] ==
            IF i = 0 THEN <<>> ELSE InsertSorted(f[i - 1], s[i], before)
    IN f[Len(s)]

-----------------------------------------------------------------------------
(* Numbers: exact rationals *)

RECURSIVE Gcd(_, _)
Gcd(a, b) == IF b = 0 THEN a ELSE Gcd(b, a % b)

Abs(n) == IF n < 0 THEN -n ELSE n

Q(n, d) ==
    LET g == Gcd(Abs(n), d) IN <<n \div g, d \div g>>

R(n) == <<n, 1>>

RAdd(a, b) == Q(a[1] * b[2] + b[1] * a[2], a[2] * b[2])
RSub(a, b) == Q(a[1] * b[2] - b[1] * a[2], a[2] * b[2])
RMulInt(a, k) == Q(a[1] * k, a[2])
RDivInt(a, k) == Q(a[1], a[2] * k)
RAbs(a) == <<Abs(a[1]), a[2]>>
RLt(a, b) == a[1] * b[2] < b[1] * a[2]
RLe(a, b) == a[1] * b[2] <= b[1] * a[2]
RMid(a, b) == RDivInt(RAdd(a, b), 2)

-----------------------------------------------------------------------------
(* Characters (code points) *)

IsDigit(c) == c \in 48..57

\* JavaScript \s and String.prototype.trim: WhiteSpace and LineTerminator
SpaceChars ==
    {9, 10, 11, 12, 13, 32, 160, 5760, 8232, 8233, 8239, 8287, 12288, 65279}
    \cup (8192..8202)

IsSpace(c) == c \in SpaceChars

\* DEVANAGARI_RE = /[\u0900-\u097F]/
IsDevanagari(c) == c \in 2304..2431

DEVANAGARI_RE(t) == \E i \in DOMAIN t : IsDevanagari(t[i])

RECURSIVE TrimLeft(_, _)
TrimLeft(t, W) ==
    IF t # <<>> /\ Head(t) \in W THEN TrimLeft(Tail(t), W) ELSE t

RECURSIVE TrimRight(_, _)
TrimRight(t, W) ==
    IF t # <<>> /\ Last(t) \in W THEN TrimRight(SubSeq(t, 1, Len(t) - 1), W)
    ELSE t

\* String.prototype.trim
Trim(t) == TrimRight(TrimLeft(t, SpaceChars), SpaceChars)

\* replace(/[W]+/g, " ") for a character class W
RECURSIVE CollapseRuns(_, _)
CollapseRuns(t, W) ==
    IF t = <<>> THEN <<>>
    ELSE IF Head(t) \in W THEN <<32>> \o CollapseRuns(TrimLeft(t, W), W)
    ELSE <<Head(t)>> \o CollapseRuns(Tail(t), W)

\* String.prototype.includes
Includes(t, p) ==
    \E i \in 0..(Len(t) - Len(p)) : SubSeq(t, i + 1, i + Len(p)) = p

normalizeText(text) == Trim(CollapseRuns(text, SpaceChars))

\* replace(/\r\n/g, "\n").replace(/\r/g, "\n")
RECURSIVE NormalizeNewlines(_)
NormalizeNewlines(t) ==
    IF t = <<>> THEN <<>>
    ELSE IF Len(t) >= 2 /\ t[1] = 13 /\ t[2] = 10 THEN
        <<10>> \o NormalizeNewlines(SubSeq(t, 3, Len(t)))
    ELSE IF t[1] = 13 THEN <<10>> \o NormalizeNewlines(Tail(t))
    ELSE <<t[1]>> \o NormalizeNewlines(Tail(t))

\* String.prototype.split("\n")
RECURSIVE SplitLines(_)
SplitLines(t) ==
    IF \A i \in DOMAIN t : t[i] # 10 THEN <<t>>
    ELSE LET k == CHOOSE i \in DOMAIN t :
                     t[i] = 10 /\ \A j \in 1..(i - 1) : t[j] # 10
         IN <<SubSeq(t, 1, k - 1)>> \o SplitLines(SubSeq(t, k + 1, Len(t)))

\* the class [ \t\f\v]
BlankChars == {32, 9, 12, 11}

NonEmpty(l) == l # <<>>

RECURSIVE CleanLines(_)
CleanLines(ls) ==
    IF ls = <<>> THEN <<>>
    ELSE <<Trim(CollapseRuns(Head(ls), BlankChars))>> \o CleanLines(Tail(ls))

normalizeCellValue(text) ==
    Join(SelectSeq(CleanLines(SplitLines(NormalizeNewlines(text))), NonEmpty), <<10>>)

-----------------------------------------------------------------------------
(* Text Normalizer: maybePreetiToUnicode *)

NotSpace(c) == ~IsSpace(c)

\* replace(/\s+/g, "")
RemoveSpace(t) == SelectSeq(t, NotSpace)

\* the class [0-9+\-()/.,:]
IsNumericPunct(c) == IsDigit(c) \/ c \in {43, 45, 40, 41, 47, 46, 44, 58}

CountDigits(t) == Cardinality({i \in DOMAIN t : IsDigit(t[i])})

\* digits / compact.length >= 0.6
DigitHeavy_Strict(compact) == CountDigits(compact) * 10 > 6 * Len(compact)

DigitHeavy(compact) == CountDigits(compact) * 10 >= 6 * Len(compact)

\* conv is what the call preeti(text) does: it throws, or returns conv.out
maybePreetiToUnicode(text, conv) ==
    IF DEVANAGARI_RE(text) THEN text
    ELSE LET compact == RemoveSpace(text) IN
         IF compact = <<>> THEN text
         ELSE IF \A i \in DOMAIN compact : IsNumericPunct(compact[i]) THEN text
         ELSE IF Len(compact) > 0 /\ DigitHeavy(compact) THEN text
         ELSE IF conv.threw THEN text
         ELSE IF DEVANAGARI_RE(conv.out) THEN conv.out
         ELSE text

-----------------------------------------------------------------------------
(* CSV Serializer: toCsv *)

NeedsQuoting_NoComma(v) == \E i \in DOMAIN v : v[i] \in {10, 13, 34}

\* /[\n\r",]/.test(v)
NeedsQuoting(v) == \E i \in DOMAIN v : v[i] \in {10, 13, 34, 44}

\* replace(/"/g, '""')
RECURSIVE DoubleQuotes(_)
DoubleQuotes(s) ==
    IF s = <<>> THEN <<>>
    ELSE IF Head(s) = 34 THEN <<34, 34>> \o DoubleQuotes(Tail(s))
    ELSE <<Head(s)>> \o DoubleQuotes(Tail(s))

esc(v) ==
    LET needs == NeedsQuoting(v)
        s == NormalizeNewlines(v)
    IN IF needs THEN <<34>> \o DoubleQuotes(s) \o <<34>> ELSE s

RECURSIVE MapEsc(_)
MapEsc(r) == IF r = <<>> THEN <<>> ELSE <<esc(Head(r))>> \o MapEsc(Tail(r))

RECURSIVE CsvLines(_)
CsvLines(rs) ==
    IF rs = <<>> THEN <<>> ELSE <<Join(MapEsc(Head(rs)), <<44>>)>> \o CsvLines(Tail(rs))

toCsv(rs) == Join(CsvLines(rs), <<10>>) \o <<10>>

-----------------------------------------------------------------------------
(* Cells and rows.  A cell is [text, x, y, page]; a row is [page, y,      *)
(* cells].  The width and height of a cell are never read by table.ts and *)
(* are left out.                                                          *)

CellXBefore(a, b) == RLt(a.x, b.x)

\* RowBefore with rows of equal page and y taken as out of order
RowBefore_TiesFirst(a, b) == a.page < b.page \/ (a.page = b.page /\ RLe(b.y, a.y))

\* (a, b) => a.page - b.page || b.y - a.y
RowBefore(a, b) == a.page < b.page \/ (a.page = b.page /\ RLt(b.y, a.y))

NumBefore(a, b) == RLt(a, b)

RECURSIVE CellXs(_)
CellXs(cells) == IF cells = <<>> THEN <<>> ELSE <<Head(cells).x>> \o CellXs(Tail(cells))

RECURSIVE CellTexts(_)
CellTexts(cells) ==
    IF cells = <<>> THEN <<>> ELSE <<Head(cells).text>> \o CellTexts(Tail(cells))

\* cells.map((c) => ({ ...c, x: c.x - origin }))
RECURSIVE ShiftCells(_, _)
ShiftCells(cells, origin) ==
    IF cells = <<>> THEN <<>>
    ELSE <<[Head(cells) EXCEPT !.x = RSub(@, origin)]>> \o ShiftCells(Tail(cells), origin)

\* LeftByShift with c.x -= origin in place of the spread
LeftByShift_Assign(cells, origin) == ShiftCells(cells, origin)

\* what cells.map((c) => ({ ...c, x: c.x - origin })) leaves in the objects
\* of cells: the spread makes a new object of each, and c is not written
LeftByShift(cells, origin) == cells

\* Math.max(...gaps) of xs.slice(1).map((x, i) => x - xs[i]), 0 when there is no gap
MaxGap(xs) ==
    IF Len(xs) < 2 THEN R(0)
    ELSE LET gaps == {RSub(xs[i + 1], xs[i]) : i \in 1..(Len(xs) - 1)}
         IN CHOOSE g \in gaps : \A h \in gaps : RLe(h, g)

\* Math.min(...cells.map((c) => c.x))
MinX(cells) ==
    CHOOSE m \in Range(CellXs(cells)) : \A x \in Range(CellXs(cells)) : RLe(m, x)

\* /^[0-9]{1,4}$/.test(t)
IsSerialText(t) == Len(t) \in 1..4 /\ \A i \in DOMAIN t : IsDigit(t[i])

\* [0-9]{1,2}(?:-[0-9]{1,2})?$ : the part of a member ID after its last slash
IsYearPart(u) ==
    LET digits(a, b) == b - a + 1 \in 1..2 /\ \A i \in a..b : IsDigit(u[i])
    IN \/ digits(1, Len(u))
       \/ \E d \in DOMAIN u : u[d] = 45 /\ digits(1, d - 1) /\ digits(d + 1, Len(u))

\* /^[0-9]{6,}[0-9/-]*\/[0-9]{1,2}(?:-[0-9]{1,2})?$/
looksLikeMemberId(text) ==
    LET t == normalizeText(text) IN
    \E k \in DOMAIN t :
        /\ t[k] = 47
        /\ k - 1 >= 6
        /\ \A i \in 1..6 : IsDigit(t[i])
        /\ \A i \in 7..(k - 1) : IsDigit(t[i]) \/ t[i] \in {47, 45}
        /\ IsYearPart(SubSeq(t, k + 1, Len(t)))

IsIdCell(c) == looksLikeMemberId(c.text)

\* isRecordStartCell with the search for an ID-like value to the right left out
isRecordStartCell_NoIdNeeded(row, idx) ==
    LET cell == row.cells[idx] IN
    /\ IsSerialText(normalizeText(cell.text))
    /\ ~(idx > 1 /\ RLt(RSub(cell.x, row.cells[idx - 1].x), R(60)))

\* idx is an index of row.cells (from 1)
isRecordStartCell(row, idx) ==
    LET cell == row.cells[idx] IN
    /\ IsSerialText(normalizeText(cell.text))
    /\ ~(idx > 1 /\ RLt(RSub(cell.x, row.cells[idx - 1].x), R(60)))
    /\ \E n \in DOMAIN row.cells :
           LET next == row.cells[n] IN
           /\ RLt(cell.x, next.x)
           /\ RLe(RSub(next.x, cell.x), R(320))
           /\ looksLikeMemberId(next.text)

\* the running-centroid fold of clusterXs over ascending xs
RunningClusters(sorted, tol) ==
    LET f[i \in 0..Len(sorted)] ==
            IF i = 0 THEN <<>>
            ELSE LET cl == f[i - 1]
                     x == sorted[i]
                 IN IF cl = <<>> \/ RLt(tol, RAbs(RSub(x, Last(cl).x))) THEN
                        Append(cl, [x |-> x, count |-> 1])
                    ELSE [cl EXCEPT ![Len(cl)] =
                            [x |-> RDivInt(RAdd(RMulInt(@.x, @.count), x), @.count + 1),
                             count |-> @.count + 1]]
    IN f[Len(sorted)]

RECURSIVE Centers(_)
Centers(cl) == IF cl = <<>> THEN <<>> ELSE <<Head(cl).x>> \o Centers(Tail(cl))

clusterXs(xs, tol) == Centers(RunningClusters(StableSort(xs, NumBefore), tol))

-----------------------------------------------------------------------------
(* Multi-Record Row Splitter *)

IdCells(row) == SelectSeq(row.cells, IsIdCell)

IdAnchors(row) == clusterXs(CellXs(IdCells(row)), R(40))

\* the member-ID anchor test: idCells.length >= 2, at least 2 anchors, maxGap >= 160
AnchorsSeparated(row) ==
    /\ Len(IdCells(row)) >= 2
    /\ Len(IdAnchors(row)) >= 2
    /\ RLe(R(160), MaxGap(IdAnchors(row)))

\* AnchorBlockCells with the test c.x <= right left out
AnchorBlockCells_NoRightBound(row, bi) ==
    LET a == IdAnchors(row)
        inside(c) == bi = 1 \/ RLt(RMid(a[bi - 1], a[bi]), c.x)
    IN SelectSeq(row.cells, inside)

\* the cells of anchor block bi: left < c.x <= right, the boundaries being the
\* midpoints of consecutive anchors
AnchorBlockCells(row, bi) ==
    LET a == IdAnchors(row)
        inside(c) ==
            /\ bi = 1 \/ RLt(RMid(a[bi - 1], a[bi]), c.x)
            /\ bi = Len(a) \/ RLe(c.x, RMid(a[bi], a[bi + 1]))
    IN SelectSeq(row.cells, inside)

\* AnchorBlocks with the subtraction of minX left out
AnchorBlocks_NoRezero(row) ==
    LET n == Len(IdAnchors(row))
        f[bi \in 0..n] ==
            IF bi = 0 THEN <<>>
            ELSE LET cells == AnchorBlockCells(row, bi) IN
                 IF Len(cells) < 4 THEN f[bi - 1]
                 ELSE Append(f[bi - 1],
                        [page |-> row.page, y |-> row.y,
                         cells |-> StableSort(cells, CellXBefore)])
    IN f[n]

\* the blocks pushed by the anchor loop: a block of fewer than 4 cells is skipped
AnchorBlocks(row) ==
    LET n == Len(IdAnchors(row))
        f[bi \in 0..n] ==
            IF bi = 0 THEN <<>>
            ELSE LET cells == AnchorBlockCells(row, bi) IN
                 IF Len(cells) < 4 THEN f[bi - 1]
                 ELSE Append(f[bi - 1],
                        [page |-> row.page, y |-> row.y,
                         cells |-> StableSort(ShiftCells(cells, MinX(cells)), CellXBefore)])
    IN f[n]

AnchorPathReturns(row) == AnchorsSeparated(row) /\ Len(AnchorBlocks(row)) >= 2

\* for one member-ID cell: the x of the closest 1-4 digit cell to its left
\* within 260 units (the first such cell on a tie), <<>> when there is none
NearestSerialX(row, idCell) ==
    LET cand == {i \in DOMAIN row.cells :
                    /\ RLt(row.cells[i].x, idCell.x)
                    /\ RLe(RSub(idCell.x, row.cells[i].x), R(260))
                    /\ IsSerialText(normalizeText(row.cells[i].text))}
    IN IF cand = {} THEN <<>>
       ELSE LET best == CHOOSE i \in cand :
                            \A j \in cand :
                                \/ RLt(row.cells[j].x, row.cells[i].x)
                                \/ (row.cells[j].x = row.cells[i].x /\ i <= j)
            IN <<row.cells[best].x>>

RECURSIVE NearbySerialStarts(_, _)
NearbySerialStarts(row, ids) ==
    IF ids = <<>> THEN <<>>
    ELSE NearestSerialX(row, Head(ids)) \o NearbySerialStarts(row, Tail(ids))

\* the generic scan: the x of every record-start cell
ScanStarts(row) ==
    LET f[i \in 0..Len(row.cells)] ==
            IF i = 0 THEN <<>>
            ELSE IF isRecordStartCell(row, i) THEN Append(f[i - 1], row.cells[i].x)
            ELSE f[i - 1]
    IN f[Len(row.cells)]

StartXs(row) ==
    LET near == IF Len(IdCells(row)) >= 2 THEN NearbySerialStarts(row, IdCells(row))
                ELSE <<>>
    IN IF near = <<>> THEN ScanStarts(row) ELSE near

Starts(row) == clusterXs(StartXs(row), R(18))

\* StartBlockCells with left <= c.x < right
StartBlockCells_NoSlack(row, bi) ==
    LET st == Starts(row)
        inside(c) ==
            /\ RLe(st[bi], c.x)
            /\ bi = Len(st) \/ RLt(c.x, st[bi + 1])
    IN ShiftCells(SelectSeq(row.cells, inside), st[bi])

\* the cells of start block bi, re-zeroed: left - 1 <= c.x < right - 1
StartBlockCells(row, bi) ==
    LET st == Starts(row)
        inside(c) ==
            /\ RLe(RSub(st[bi], R(1)), c.x)
            /\ bi = Len(st) \/ RLt(c.x, RSub(st[bi + 1], R(1)))
    IN ShiftCells(SelectSeq(row.cells, inside), st[bi])

\* StartBlocks with cells.length >= 3 in place of cells.length >= 4
StartBlocks_ThreeCells(row) ==
    LET n == Len(Starts(row))
        f[bi \in 0..n] ==
            IF bi = 0 THEN <<>>
            ELSE LET cells == StartBlockCells(row, bi) IN
                 IF Len(cells) >= 3 THEN
                     Append(f[bi - 1],
                        [page |-> row.page, y |-> row.y,
                         cells |-> StableSort(cells, CellXBefore)])
                 ELSE f[bi - 1]
    IN f[n]

StartBlocks(row) ==
    LET n == Len(Starts(row))
        f[bi \in 0..n] ==
            IF bi = 0 THEN <<>>
            ELSE LET cells == StartBlockCells(row, bi) IN
                 IF Len(cells) >= 4 THEN
                     Append(f[bi - 1],
                        [page |-> row.page, y |-> row.y,
                         cells |-> StableSort(cells, CellXBefore)])
                 ELSE f[bi - 1]
    IN f[n]

\* explodeMultiRecordRow with the test maxGap < 140 left out
explodeMultiRecordRow_NoGapCheck(row) ==
    IF AnchorPathReturns(row) THEN AnchorBlocks(row)
    ELSE IF Len(Starts(row)) <= 1 THEN <<row>>
    ELSE IF StartBlocks(row) # <<>> THEN StartBlocks(row)
    ELSE <<row>>

explodeMultiRecordRow(row) ==
    IF AnchorPathReturns(row) THEN AnchorBlocks(row)
    ELSE IF Len(Starts(row)) <= 1 THEN <<row>>
    ELSE IF RLt(MaxGap(Starts(row)), R(140)) THEN <<row>>
    ELSE IF StartBlocks(row) # <<>> THEN StartBlocks(row)
    ELSE <<row>>

RECURSIVE ExplodeEach(_)
ExplodeEach(rs) ==
    IF rs = <<>> THEN <<>> ELSE explodeMultiRecordRow(Head(rs)) \o ExplodeEach(Tail(rs))

explodeMultiRecordRows(rs) == StableSort(ExplodeEach(rs), RowBefore)

-----------------------------------------------------------------------------
(* Header Locator & Sanitizer *)

\* the alternatives of the header-label regular expression of isHeaderLikeToken,
\* as code points; an optional "." gives two alternatives, a trailing one none
HeaderKeywords ==
    { <<2325, 2381, 2352, 2360, 2306>>,
      <<2325, 2381, 2352, 46, 2360, 2306>>,
      <<2325, 2381, 2352, 2367, 2351, 2366, 2358, 2368, 2354>>,
      <<2325, 2381, 2352, 2367, 2351, 2366, 2358, 2367, 2354>>,
      <<2344, 2350, 2381, 2348, 2352>>,
      <<2344, 2306>>,
      <<2360, 2342, 2360, 2381, 2351>>,
      <<2344, 2366, 2350>>,
      <<2348, 2366, 2348, 2369>>,
      <<2310, 2350, 2366>>,
      <<2310, 2350, 2366, 2325, 2379>>,
      <<2346, 2340, 2367>>,
      <<2346, 2340, 2381, 2344, 2368>>,
      <<2354, 2367, 2329, 2381, 2327>>,
      <<2354, 2367, 2306, 2327>>,
      <<2313, 2350, 2375, 2352>>,
      <<2360, 2350, 2366, 2357, 2375, 2358, 2368>>,
      <<2360, 2350, 2369, 2361>>,
      <<2360, 2350, 2370, 2361>>,
      <<2358, 2367, 2325, 2381, 2359, 2366>>,
      <<2335, 2379, 2354>>,
      <<2360, 2350, 2381, 2346, 2352, 2381, 2325>>,
      <<2325, 2376, 2347, 2367, 2351, 2340>>,
      <<2344, 2366, 2350, 2360, 2366, 2352, 2368>> }

isHeaderLikeToken(text) ==
    LET t == normalizeText(text) IN
    /\ t # <<>>
    /\ ~looksLikeMemberId(t)
    /\ ~IsSerialText(t)
    /\ \E k \in HeaderKeywords : Includes(t, k)

IsHeaderLikeCell(c) == isHeaderLikeToken(c.text)

\* sanitizeHeaderRow with kept.length >= 3 in place of kept.length >= 4
sanitizeHeaderRow_ThreeTokens(row) ==
    LET kept == SelectSeq(row.cells, IsHeaderLikeCell)
    IN IF Len(kept) >= 3 THEN [page |-> row.page, y |-> row.y, cells |-> kept] ELSE row

sanitizeHeaderRow(row) ==
    LET kept == SelectSeq(row.cells, IsHeaderLikeCell)
    IN IF Len(kept) >= 4 THEN [page |-> row.page, y |-> row.y, cells |-> kept] ELSE row

rowText(row) == normalizeText(Join(CellTexts(row.cells), <<32>>))

\* the three phrases tested by isHeaderRow, as code points
HeaderPhrases ==
    { <<2325, 2381, 2352, 46, 2360, 2306>>,
      <<2325, 2381, 2352, 2367, 2351, 2366, 2358, 2368, 2354, 32, 2344, 2306>>,
      <<2360, 2342, 2360, 2381, 2351, 2325, 2379, 32, 2344, 2366, 2350>> }

isHeaderRow(row) == \E ph \in HeaderPhrases : Includes(rowText(row), ph)

isLikelyDataRow(row) ==
    /\ Len(row.cells) >= 4
    /\ \E i \in DOMAIN row.cells : IsSerialText(row.cells[i].text)
    /\ \E i \in DOMAIN row.cells : looksLikeMemberId(row.cells[i].text)

\* findHeaderRowIndex returning 0 in place of -1 when no row matches
findHeaderRowIndex_OrFirst(rs) ==
    LET hit == {i \in DOMAIN rs : isHeaderRow(rs[i])}
    IN IF hit = {} THEN 0
       ELSE (CHOOSE i \in hit : \A j \in hit : i <= j) - 1

\* Array.prototype.findIndex: the index from 0 of the first header row, or -1
findHeaderRowIndex(rs) ==
    LET hit == {i \in DOMAIN rs : isHeaderRow(rs[i])}
    IN IF hit = {} THEN -1
       ELSE (CHOOSE i \in hit : \A j \in hit : i <= j) - 1

-----------------------------------------------------------------------------
(* Column Boundary Inferencer *)

\* the xs accepted as starts by the loop "if (x - prev >= gap) { push; prev = x }"
\* over ascending xs, prev starting at -Infinity
AcceptStarts(xs, gap) ==
    LET f[i \in 0..Len(xs)] ==
            IF i = 0 THEN <<>>
            ELSE LET acc == f[i - 1] IN
                 IF acc = <<>> \/ RLe(R(gap), RSub(xs[i], Last(acc)))
                 THEN Append(acc, xs[i])
                 ELSE acc
    IN f[Len(xs)]

\* stops.push((xs[i] + xs[i + 1]) / 2) for consecutive xs
Midpoints(xs) ==
    IF Len(xs) < 2 THEN <<>> ELSE [i \in 1..(Len(xs) - 1) |-> RMid(xs[i], xs[i + 1])]

\* inferColumnStopsFromHeaderRow with x - prev >= 8 in place of x - prev >= 34
inferColumnStopsFromHeaderRow_Gap8(headerRow) ==
    LET xs == StableSort(CellXs(headerRow.cells), NumBefore)
        starts == AcceptStarts(xs, 8)
    IN IF Len(xs) < 2 THEN <<>>
       ELSE IF Len(starts) < 2 THEN <<>>
       ELSE Midpoints(starts)

inferColumnStopsFromHeaderRow(headerRow) ==
    LET xs == StableSort(CellXs(headerRow.cells), NumBefore)
        starts == AcceptStarts(xs, 34)
    IN IF Len(xs) < 2 THEN <<>>
       ELSE IF Len(starts) < 2 THEN <<>>
       ELSE Midpoints(starts)

\* rows.filter(isLikelyDataRow).slice(0, 30)
Sample(rs) ==
    LET likely == SelectSeq(rs, isLikelyDataRow)
    IN SubSeq(likely, 1, IF Len(likely) < 30 THEN Len(likely) ELSE 30)

RECURSIVE SampleStarts(_)
SampleStarts(sample) ==
    IF sample = <<>> THEN <<>>
    ELSE AcceptStarts(StableSort(CellXs(Head(sample).cells), NumBefore), 8)
         \o SampleStarts(Tail(sample))

\* MinCount with a floor of 2 in place of 3
MinCount_FloorTwo(n) == IF n \div 5 > 2 THEN n \div 5 ELSE 2

\* MinCount with Math.ceil in place of Math.floor
MinCount_Ceil(n) == IF (n + 4) \div 5 > 3 THEN (n + 4) \div 5 ELSE 3

\* Math.max(3, Math.floor(sample.length * 0.2))
MinCount(n) == IF n \div 5 > 3 THEN n \div 5 ELSE 3

\* clusters.filter((c) => c.count >= minCount).map((c) => c.x)
DataColumnXs(sample) ==
    LET clusters == RunningClusters(StableSort(SampleStarts(sample), NumBefore), R(4))
        significant(c) == c.count >= MinCount(Len(sample))
    IN Centers(SelectSeq(clusters, significant))

\* ColumnXs with the push of the header row's rightmost x left out
ColumnXs_NeverAppends(sample, hasHeader, headerRow) == DataColumnXs(sample)

\* ColumnXs with rightmost > maxData in place of rightmost > maxData + 12
ColumnXs_NoMargin(sample, hasHeader, headerRow) ==
    LET columnXs == DataColumnXs(sample) IN
    IF hasHeader /\ headerRow.cells # <<>> THEN
        LET rightmost == Last(StableSort(CellXs(headerRow.cells), NumBefore))
            hasNear == \E i \in DOMAIN columnXs :
                           RLe(RAbs(RSub(columnXs[i], rightmost)), R(8))
            beyond == \A i \in DOMAIN columnXs : RLt(columnXs[i], rightmost)
        IN IF ~hasNear /\ beyond THEN Append(columnXs, rightmost) ELSE columnXs
    ELSE columnXs

\* the header row's rightmost x is pushed when no column is within 8 of it
\* and it is more than 12 past the rightmost column
ColumnXs(sample, hasHeader, headerRow) ==
    LET columnXs == DataColumnXs(sample) IN
    IF hasHeader /\ headerRow.cells # <<>> THEN
        LET rightmost == Last(StableSort(CellXs(headerRow.cells), NumBefore))
            hasNear == \E i \in DOMAIN columnXs :
                           RLe(RAbs(RSub(columnXs[i], rightmost)), R(8))
            beyond == \A i \in DOMAIN columnXs :
                           RLt(RAdd(columnXs[i], R(12)), rightmost)
        IN IF ~hasNear /\ beyond THEN Append(columnXs, rightmost) ELSE columnXs
    ELSE columnXs

\* hasHeader is FALSE when the optional headerRow argument is not given
inferColumnStopsFromDataRows(rs, hasHeader, headerRow) ==
    LET sample == Sample(rs)
        fallback == IF hasHeader THEN inferColumnStopsFromHeaderRow(sanitizeHeaderRow(headerRow))
                    ELSE <<>>
    IN IF sample = <<>> THEN fallback
       ELSE LET columnXs == ColumnXs(sample, hasHeader, headerRow) IN
            IF Len(columnXs) < 2 THEN fallback
            ELSE Midpoints(StableSort(columnXs, NumBefore))

-----------------------------------------------------------------------------
(* Table Assembler *)

\* ColumnOf with cell.x <= s in place of cell.x < s
ColumnOf_UpTo(cell, st) ==
    LET hit == {i \in DOMAIN st : RLe(cell.x, st[i])}
    IN IF hit = {} THEN Len(st) + 1 ELSE CHOOSE i \in hit : \A j \in hit : i <= j

\* stops.findIndex((s) => cell.x < s), from 1; the last column when there is none
ColumnOf(cell, st) ==
    LET hit == {i \in DOMAIN st : RLt(cell.x, st[i])}
    IN IF hit = {} THEN Len(st) + 1 ELSE CHOOSE i \in hit : \A j \in hit : i <= j

RECURSIVE MapNormalizeCellValue(_)
MapNormalizeCellValue(cols) ==
    IF cols = <<>> THEN <<>>
    ELSE <<normalizeCellValue(Head(cols))>> \o MapNormalizeCellValue(Tail(cols))

\* rowToColumns with new Array(stops.length) in place of new Array(stops.length + 1)
rowToColumns_ShortArray(row, st) ==
    IF Len(st) = 0 THEN <<normalizeCellValue(Join(CellTexts(row.cells), <<32>>))>>
    ELSE LET f[i \in 0..Len(row.cells)] ==
                 IF i = 0 THEN [k \in 1..Len(st) |-> <<>>]
                 ELSE LET cell == row.cells[i]
                          colIndex == IF ColumnOf(cell, st) > Len(st) THEN Len(st)
                                      ELSE ColumnOf(cell, st)
                      IN [f[i - 1] EXCEPT ![colIndex] =
                            normalizeCellValue(Trim(@ \o <<32>> \o cell.text))]
         IN MapNormalizeCellValue(f[Len(row.cells)])

rowToColumns(row, st) ==
    IF Len(st) = 0 THEN <<normalizeCellValue(Join(CellTexts(row.cells), <<32>>))>>
    ELSE LET f[i \in 0..Len(row.cells)] ==
                 IF i = 0 THEN [k \in 1..(Len(st) + 1) |-> <<>>]
                 ELSE LET cell == row.cells[i]
                          colIndex == ColumnOf(cell, st)
                      IN [f[i - 1] EXCEPT ![colIndex] =
                            normalizeCellValue(Trim(@ \o <<32>> \o cell.text))]
         IN MapNormalizeCellValue(f[Len(row.cells)])

\* collectMainTable with the loop starting at headerIdx + 1 in place of 0
collectMainTable_AfterHeader(rs, st, hIdx) ==
    IF hIdx < 0 \/ hIdx >= Len(rs) THEN <<>>
    ELSE LET f[i \in 0..Len(rs)] ==
                 IF i = 0 THEN <<rowToColumns(sanitizeHeaderRow(rs[hIdx + 1]), st)>>
                 ELSE IF i <= hIdx + 1 THEN f[i - 1]
                 ELSE IF isHeaderRow(rs[i]) THEN f[i - 1]
                 ELSE IF ~isLikelyDataRow(rs[i]) THEN f[i - 1]
                 ELSE Append(f[i - 1], rowToColumns(rs[i], st))
         IN f[Len(rs)]

\* hIdx is the JavaScript index (from 0); rows[hIdx] is undefined out of range
collectMainTable(rs, st, hIdx) ==
    IF hIdx < 0 \/ hIdx >= Len(rs) THEN <<>>
    ELSE LET f[i \in 0..Len(rs)] ==
                 IF i = 0 THEN <<rowToColumns(sanitizeHeaderRow(rs[hIdx + 1]), st)>>
                 ELSE IF i = hIdx + 1 THEN f[i - 1]
                 ELSE IF isHeaderRow(rs[i]) THEN f[i - 1]
                 ELSE IF ~isLikelyDataRow(rs[i]) THEN f[i - 1]
                 ELSE Append(f[i - 1], rowToColumns(rs[i], st))
         IN f[Len(rs)]

-----------------------------------------------------------------------------
(* Row Grouper *)

\* FragBefore with the key b.y - a.y left out
FragBefore_ByX(a, b) ==
    \/ a.page < b.page
    \/ a.page = b.page /\ RLt(a.x, b.x)

\* (a, b) => a.page - b.page || b.y - a.y || a.x - b.x
FragBefore(a, b) ==
    \/ a.page < b.page
    \/ a.page = b.page /\ RLt(b.y, a.y)
    \/ a.page = b.page /\ a.y = b.y /\ RLt(a.x, b.x)

\* MatchingRow with the test r.page === cell.page left out
MatchingRow_AnyPage(rs, cell, tol) ==
    LET hit == {i \in DOMAIN rs : RLe(RAbs(RSub(rs[i].y, cell.y)), tol)}
    IN IF hit = {} THEN 0 ELSE CHOOSE i \in hit : \A j \in hit : i <= j

\* MatchingRow with < yTolerance in place of <= yTolerance
MatchingRow_Strict(rs, cell, tol) ==
    LET hit == {i \in DOMAIN rs :
                   rs[i].page = cell.page /\ RLt(RAbs(RSub(rs[i].y, cell.y)), tol)}
    IN IF hit = {} THEN 0 ELSE CHOOSE i \in hit : \A j \in hit : i <= j

\* rows.find(...): the first row of the cell's page whose y is within tol, 0 if none
MatchingRow(rs, cell, tol) ==
    LET hit == {i \in DOMAIN rs :
                   rs[i].page = cell.page /\ RLe(RAbs(RSub(rs[i].y, cell.y)), tol)}
    IN IF hit = {} THEN 0 ELSE CHOOSE i \in hit : \A j \in hit : i <= j

\* GroupWalk with existing.cells.push(cell) left out
GroupWalk_NoPush(sorted, tol) ==
    LET f[i \in 0..Len(sorted)] ==
            IF i = 0 THEN <<>>
            ELSE LET rs == f[i - 1]
                     cell == sorted[i]
                     e == MatchingRow(rs, cell, tol)
                 IN IF e # 0 THEN rs
                    ELSE Append(rs, [page |-> cell.page, y |-> cell.y, cells |-> <<cell>>])
    IN f[Len(sorted)]

\* the walk over the sorted fragments
GroupWalk(sorted, tol) ==
    LET f[i \in 0..Len(sorted)] ==
            IF i = 0 THEN <<>>
            ELSE LET rs == f[i - 1]
                     cell == sorted[i]
                     e == MatchingRow(rs, cell, tol)
                 IN IF e # 0 THEN
                        [rs EXCEPT ![e] =
                            [page |-> @.page,
                             y |-> RDivInt(RAdd(RMulInt(@.y, Len(@.cells)), cell.y),
                                           Len(@.cells) + 1),
                             cells |-> Append(@.cells, cell)]]
                    ELSE Append(rs, [page |-> cell.page, y |-> cell.y, cells |-> <<cell>>])
    IN f[Len(sorted)]

\* SortRowCells with the sort of the cells left out
SortRowCells_None(rs) == rs

RECURSIVE SortRowCells(_)
SortRowCells(rs) ==
    IF rs = <<>> THEN <<>>
    ELSE <<[Head(rs) EXCEPT !.cells = StableSort(@, CellXBefore)]>> \o SortRowCells(Tail(rs))

\* LeftBySort with cells.sort(...) in place of [...cells].sort(...)
LeftBySort_InPlace(cells) == StableSort(cells, FragBefore)

\* what [...cells].sort(...) leaves in cells: the copy is sorted
LeftBySort(cells) == cells

groupIntoRows(cells, yTolerance) ==
    StableSort(SortRowCells(GroupWalk(StableSort(cells, FragBefore), yTolerance)), RowBefore)

-----------------------------------------------------------------------------
(* Runs of the text normalizer and of the serializer *)

\* all strings over alphabet A of length at most n
Strings(A, n) == UNION {[1..k -> A] : k \in 0..n}

MaxPreetiLen == 5

\* "1", "a", " ", "/" and the Devanagari letter KA
PreetiAlphabet == {49, 97, 32, 47, 2325}

\* what preeti(text) may do: throw, return Devanagari, return no Devanagari
ConvOutcomes ==
    { [threw |-> TRUE, out |-> <<>>],
      [threw |-> FALSE, out |-> <<2325, 97>>],
      [threw |-> FALSE, out |-> <<97>>] }

MaxCsvLen == 3

MaxCsvSideLen == 1

\* ",", "\n", the double quote and "a"
CsvAlphabet == {44, 10, 34, 97}

CsvTables ==
    LET C == Strings(CsvAlphabet, MaxCsvLen)
        D == Strings(CsvAlphabet, MaxCsvSideLen)
    IN {<<<<c>>>> : c \in C}
       \cup {<<<<c, d>>>> : c \in C, d \in D}
       \cup {<<<<d, c>>>> : c \in C, d \in D}
       \cup {<<<<c>>, <<d>>>> : c \in C, d \in D}

\* the texts of the record printed first (k = 1) and second (k = 2) on a line:
\* serial "1" / "2", member ID "550022/13-14" / "550033/14-15", a name
SerialText(k) == IF k = 1 THEN <<49>> ELSE <<50>>
MemberIdText(k) == IF k = 1 THEN <<53, 53, 48, 48, 50, 50, 47, 49, 51, 45, 49, 52>> ELSE <<53, 53, 48, 48, 51, 51, 47, 49, 52, 45, 49, 53>>
WordText(k) == IF k = 1 THEN <<82, 97, 109>> ELSE <<83, 105, 116, 97>>

MaxBefore == 2

MaxAfter == 2

\* a record layout: an optional serial cell, `before` words, an optional
\* member-ID cell, `after` words, one cell every `step` units
RecordShapes ==
    [serial : BOOLEAN, before : 0..MaxBefore, id : BOOLEAN, after : 0..MaxAfter]

Steps == {20, 40}

\* distance between the starts of two records printed on one line
Distances == {120, 150, 200}

RecordTexts(shape, k) ==
    (IF shape.serial THEN <<SerialText(k)>> ELSE <<>>)
    \o [i \in 1..shape.before |-> WordText(k)]
    \o (IF shape.id THEN <<MemberIdText(k)>> ELSE <<>>)
    \o [i \in 1..shape.after |-> WordText(k)]

\* the cells of record k laid out from x = start on the line (page 1, y = 20)
RecordCells(shape, k, start, step) ==
    LET texts == RecordTexts(shape, k)
    IN [i \in 1..Len(texts) |->
          [text |-> texts[i], x |-> R(start + (i - 1) * step), y |-> R(20), page |-> 1]]

LineRow(cells) ==
    [page |-> 1, y |-> R(20), cells |-> StableSort(cells, CellXBefore)]

\* visual lines holding one record, or two records side by side
LineRows ==
    {LineRow(RecordCells(a, 1, 0, st)) : a \in RecordShapes, st \in Steps}
    \cup {LineRow(RecordCells(a, 1, 0, st) \o RecordCells(b, 2, d, st)) :
            a \in RecordShapes, b \in RecordShapes, st \in Steps, d \in Distances}

\* a complete record: serial, member ID and two more cells
FullRecord == [serial |-> TRUE, before |-> 0, id |-> TRUE, after |-> 2]

\* x of one more cell on the line: just left of the first record's start
\* (x = 0) or of the second record's start (x = 150)
ExtraXs == {R(-2), R(-1), R(148), R(149), Q(299, 2)}

\* two complete records 150 apart and one more cell near a record start
SlackLines ==
    {LineRow(RecordCells(FullRecord, 1, 0, 20) \o RecordCells(FullRecord, 2, 150, 20)
             \o <<[text |-> WordText(1), x |-> x, y |-> R(20), page |-> 1]>>) :
        x \in ExtraXs}

\* a header line above the records (page 1, y = 30): five column labels
HeaderLine ==
    LET labels == << <<2325, 2381, 2352, 46, 2360, 2306>>,
                   <<2325, 2381, 2352, 2367, 2351, 2366, 2358, 2368, 2354, 32, 2344, 2306>>,
                   <<2360, 2342, 2360, 2381, 2351, 2325, 2379, 32, 2344, 2366, 2350>>,
                   <<2313, 2350, 2375, 2352>>,
                   <<2335, 2379, 2354>> >>
    IN [page |-> 1, y |-> R(30),
        cells |-> [i \in 1..Len(labels) |->
                     [text |-> labels[i], x |-> R((i - 1) * 40), y |-> R(30), page |-> 1]]]

preetiVars == <<preetiIn, preetiConv, preetiOut>>
csvVars == <<csvTable, csvText>>
groupVars == <<frags, fresh, yTol, grouped>>
tableVars == <<rows, exploded, headerIdx, header, stops, table>>
hookVars == <<ui, lastTable, lastBaseName, extractRunId, runs, downloads>>

NoPreeti == preetiIn = <<>> /\ preetiConv = [threw |-> TRUE, out |-> <<>>] /\ preetiOut = <<>>
NoCsv == csvTable = <<>> /\ csvText = <<>>
NoGroup == frags = <<>> /\ fresh = <<>> /\ yTol = R(2) /\ grouped = <<>>
NoTable ==
    /\ rows = <<>> /\ exploded = <<>> /\ headerIdx = -1
    /\ header = <<>> /\ stops = <<>> /\ table = <<>>

\* the state of the hook when it is mounted
NoHook ==
    /\ ui = [busy |-> FALSE, pdfName |-> <<>>, pdfSizeKb |-> 0, processingText |-> "",
             exportStatus |-> "", warning |-> "", tableMeta |-> <<>>,
             header |-> <<>>, rows |-> <<>>]
    /\ lastTable = <<>>
    /\ lastBaseName = <<116, 97, 98, 108, 101>>
    /\ extractRunId = 0
    /\ runs = <<>>
    /\ downloads = <<>>

InitPreeti ==
    /\ pc = "preeti"
    /\ preetiIn \in Strings(PreetiAlphabet, MaxPreetiLen)
    /\ preetiConv \in ConvOutcomes
    /\ preetiOut = <<>>
    /\ NoCsv /\ NoGroup /\ NoTable /\ NoHook

\* pdf.ts calls maybePreetiToUnicode on every text item
Convert ==
    /\ pc = "preeti"
    /\ preetiOut' = maybePreetiToUnicode(preetiIn, preetiConv)
    /\ pc' = "preetiDone"
    /\ UNCHANGED <<preetiIn, preetiConv, csvVars, groupVars, tableVars, hookVars>>

SpecPreeti == InitPreeti /\ [][Convert]_vars

InitCsv ==
    /\ pc = "csv"
    /\ csvTable \in CsvTables
    /\ csvText = <<>>
    /\ NoPreeti /\ NoGroup /\ NoTable /\ NoHook

\* downloadCsv: toCsv(lastTable)
Serialize ==
    /\ pc = "csv"
    /\ csvText' = toCsv(csvTable)
    /\ pc' = "csvDone"
    /\ UNCHANGED <<csvTable, preetiVars, groupVars, tableVars, hookVars>>

SpecCsv == InitCsv /\ [][Serialize]_vars

-----------------------------------------------------------------------------
(* Runs of the row grouper *)

MaxFrags == 3

\* where a fragment may lie: page 1 at x = 0 or 10 and y = 0..4, page 2 at
\* x = 0, y = 4
FragPoints ==
    [x : {R(0), R(10)}, y : {R(k) : k \in 0..4}, page : {1}]
    \cup {[x |-> R(0), y |-> R(4), page |-> 2]}

\* the tolerances the extractor passes: DEFAULT_Y_TOLERANCE = 2.0, and 0.8
YTolerances == {R(2), Q(4, 5)}

\* fragment i of the input carries the text "A", "B", "C", ... by its position
FragsAt(pts) ==
    [i \in DOMAIN pts |->
        [text |-> <<64 + i>>, x |-> pts[i].x, y |-> pts[i].y, page |-> pts[i].page]]

InitGroup ==
    /\ pc = "frags"
    /\ \E pts \in Strings(FragPoints, MaxFrags) : frags = FragsAt(pts)
    /\ fresh = frags
    /\ yTol \in YTolerances
    /\ grouped = <<>>
    /\ NoPreeti /\ NoCsv /\ NoTable /\ NoHook

\* groupedRows = groupIntoRows(cells, yTolerance)
Group ==
    /\ pc = "frags"
    /\ grouped' = groupIntoRows(frags, yTol)
    /\ pc' = "groupDone"
    /\ UNCHANGED <<frags, fresh, yTol, preetiVars, csvVars, tableVars, hookVars>>

SpecGroup == InitGroup /\ [][Group]_vars

-----------------------------------------------------------------------------
(* The synchronous part of an extraction run, from the grouped rows on *)

InitExplode ==
    /\ pc = "grouped"
    /\ \E line \in LineRows \cup SlackLines : rows = <<HeaderLine, line>>
    /\ exploded = <<>> /\ headerIdx = -1 /\ header = <<>> /\ stops = <<>> /\ table = <<>>
    /\ NoPreeti /\ NoCsv /\ NoGroup /\ NoHook

\* normalizedRows = explodeMultiRecordRows(groupedRows)
Explode ==
    /\ pc = "grouped"
    /\ exploded' = explodeMultiRecordRows(rows)
    /\ pc' = "exploded"
    /\ UNCHANGED <<rows, headerIdx, header, stops, table, preetiVars, csvVars, groupVars, hookVars>>

\* rows.filter((_, i) => i !== idx), idx from 0
WithoutIndex(rs, idx) ==
    SubSeq(rs, 1, idx) \o SubSeq(rs, idx + 2, Len(rs))

\* findHeaderRowIndex, and when the header is found inferColumnStopsFromDataRows
\* and collectMainTable
Assemble ==
    /\ pc = "exploded"
    /\ LET hIdx == findHeaderRowIndex(exploded) IN
       /\ headerIdx' = hIdx
       /\ IF hIdx = -1 THEN
             /\ pc' = "noHeader"
             /\ UNCHANGED <<header, stops, table>>
          ELSE
             LET safeHeaderRow == sanitizeHeaderRow(exploded[hIdx + 1])
                 st == inferColumnStopsFromDataRows(WithoutIndex(exploded, hIdx), TRUE,
                                                    safeHeaderRow)
             IN /\ header' = <<safeHeaderRow>>
                /\ stops' = st
                /\ table' = collectMainTable(exploded, st, hIdx)
                /\ pc' = "assembled"
    /\ UNCHANGED <<rows, exploded, preetiVars, csvVars, groupVars, hookVars>>

SpecExplode == InitExplode /\ [][Explode \/ Assemble]_vars

-----------------------------------------------------------------------------
(* Runs of the splitter over a document of several rows *)

MaxDocRows == 3

\* a line of one record, a line of two records 150 apart (cut at the record
\* starts) and a line of two records 200 apart (cut between the member IDs)
DocLines ==
    {LineRow(RecordCells(FullRecord, 1, 0, 20))}
    \cup {LineRow(RecordCells(FullRecord, 1, 0, 20) \o RecordCells(FullRecord, 2, d, 20)) :
            d \in {150, 200}}

DocSlots == {[page |-> 1, y |-> R(20)], [page |-> 1, y |-> R(10)], [page |-> 2, y |-> R(20)]}

DocRow(line, slot) ==
    [page |-> slot.page, y |-> slot.y,
     cells |-> [i \in DOMAIN line.cells |->
                  [line.cells[i] EXCEPT !.page = slot.page, !.y = slot.y]]]

DocRows == {DocRow(line, slot) : line \in DocLines, slot \in DocSlots}

InitOrder ==
    /\ pc = "grouped"
    /\ rows \in Strings(DocRows, MaxDocRows) \ {<<>>}
    /\ exploded = <<>> /\ headerIdx = -1 /\ header = <<>> /\ stops = <<>> /\ table = <<>>
    /\ NoPreeti /\ NoCsv /\ NoGroup /\ NoHook

SpecOrder == InitOrder /\ [][Explode]_vars

-----------------------------------------------------------------------------
(* Runs of the column inferencer and of the table assembler *)

MaxDataRows == 3

MaxTableRows == 3

\* a data row whose first three cells lie 10 * k further right and whose
\* last cell lies at x = 160, whatever k
DataRowAt(k) ==
    LET texts == <<SerialText(1), MemberIdText(1), WordText(1), WordText(1)>>
        xs == <<10 * k, 40 + 10 * k, 80 + 10 * k, 160>>
    IN [page |-> 1, y |-> R(20),
        cells |-> [i \in 1..4 |->
                     [text |-> texts[i], x |-> R(xs[i]), y |-> R(20), page |-> 1]]]

\* a row of three cells, not a likely data row
ShortRow == [DataRowAt(0) EXCEPT !.cells = SubSeq(@, 1, 3)]

\* the data row at k = 0 with every cell 4 further right
NearRow ==
    [DataRowAt(0) EXCEPT !.cells = [i \in 1..4 |-> [@[i] EXCEPT !.x = RAdd(@, R(4))]]]

DataRows == {DataRowAt(k) : k \in 0..2} \cup {ShortRow, NearRow}

\* the header line with its last label 10 further right
WideHeader ==
    [HeaderLine EXCEPT !.cells[5].x = R(170)]

\* the header line with the first cells of a record merged into it
MergedHeader ==
    [HeaderLine EXCEPT !.cells =
        @ \o <<[text |-> SerialText(1), x |-> R(200), y |-> R(30), page |-> 1],
               [text |-> MemberIdText(1), x |-> R(240), y |-> R(30), page |-> 1]>>]

\* two labels 10 apart: no stops can be derived from them
NarrowHeader ==
    [HeaderLine EXCEPT !.cells = <<[HeaderLine.cells[1] EXCEPT !.x = R(0)],
                                   [HeaderLine.cells[2] EXCEPT !.x = R(10)]>>]

EmptyHeader == [HeaderLine EXCEPT !.cells = <<>>]

\* the header line with its second label 20 further left, 20 from the first
CrowdedHeader == [HeaderLine EXCEPT !.cells[2].x = R(20)]

\* the optional headerRow argument: not given, or one of the header rows
HeaderArgs ==
    {<<>>} \cup {<<h>> : h \in {HeaderLine, WideHeader, MergedHeader, NarrowHeader,
                             EmptyHeader, CrowdedHeader}}

InitStops ==
    /\ pc = "sample"
    /\ rows \in Strings(DataRows, MaxDataRows)
    /\ header \in HeaderArgs
    /\ exploded = <<>> /\ headerIdx = -1 /\ stops = <<>> /\ table = <<>>
    /\ NoPreeti /\ NoCsv /\ NoGroup /\ NoHook

\* inferColumnStopsFromDataRows(rows, headerRow)
Infer ==
    /\ pc = "sample"
    /\ stops' = inferColumnStopsFromDataRows(rows, header # <<>>,
                                             IF header # <<>> THEN header[1] ELSE EmptyHeader)
    /\ pc' = "inferred"
    /\ UNCHANGED <<rows, exploded, headerIdx, header, table, preetiVars, csvVars, groupVars, hookVars>>

SpecStops == InitStops /\ [][Infer]_vars

TableRows == {HeaderLine, MergedHeader, DataRowAt(0), ShortRow}

\* no stops, one stop, four stops, two stops in descending order, and two
\* stops each at the x of a cell
StopLists ==
    {<<>>, <<R(20)>>, <<R(20), R(60), R(100), R(140)>>, <<R(60), R(20)>>,
     <<R(40), R(80)>>}

InitTable ==
    /\ pc = "rows"
    /\ rows \in Strings(TableRows, MaxTableRows) \ {<<>>}
    /\ stops \in StopLists
    /\ headerIdx \in -1..Len(rows)
    /\ exploded = <<>> /\ header = <<>> /\ table = <<>>
    /\ NoPreeti /\ NoCsv /\ NoGroup /\ NoHook

\* collectMainTable(rows, stops, headerIdx)
Collect ==
    /\ pc = "rows"
    /\ table' = collectMainTable(rows, stops, headerIdx)
    /\ pc' = "collected"
    /\ UNCHANGED <<rows, exploded, headerIdx, header, stops, preetiVars, csvVars, groupVars, hookVars>>

SpecTable == InitTable /\ [][Collect]_vars

-----------------------------------------------------------------------------
(* Runs of the header sanitizer *)

MaxHeaderCells == 5

\* two column labels of the header line
LabelTexts == {HeaderLine.cells[1].text, HeaderLine.cells[5].text}

\* what a cell of a header row may hold: a label, a serial, a member ID, a name
HeaderCellTexts == LabelTexts \cup {SerialText(1), MemberIdText(1), WordText(1)}

\* a row (page 2, y = 30) of the given texts, one cell every 10 units
HeaderRowOf(texts) ==
    [page |-> 2, y |-> R(30),
     cells |-> [i \in DOMAIN texts |->
                  [text |-> texts[i], x |-> R(10 * i), y |-> R(30), page |-> 2]]]

InitSanitize ==
    /\ pc = "headerRow"
    /\ \E texts \in Strings(HeaderCellTexts, MaxHeaderCells) : rows = <<HeaderRowOf(texts)>>
    /\ exploded = <<>> /\ headerIdx = 0 /\ header = <<>> /\ stops = <<>> /\ table = <<>>
    /\ NoPreeti /\ NoCsv /\ NoGroup /\ NoHook

\* safeHeaderRow = sanitizeHeaderRow(headerRow)
Sanitize ==
    /\ pc = "headerRow"
    /\ header' = <<sanitizeHeaderRow(rows[headerIdx + 1])>>
    /\ pc' = "sanitized"
    /\ UNCHANGED <<rows, exploded, headerIdx, stops, table, preetiVars, csvVars, groupVars, hookVars>>

SpecSanitize == InitSanitize /\ [][Sanitize]_vars

-----------------------------------------------------------------------------
(* Runs of the column inferencer over long documents *)

MaxPerLayout == 14

MaxFewer == 4

\* n copies of a row
Copies(row, n) == [i \in 1..n |-> row]

\* a data row whose first three cells lie at x = 10 * k, + 2 and + 4 (one
\* column start) and whose last cell lies at x = 160
NarrowRowAt(k) ==
    LET texts == <<SerialText(1), MemberIdText(1), WordText(1), WordText(1)>>
        xs == <<10 * k, 10 * k + 2, 10 * k + 4, 160>>
    IN [page |-> 1, y |-> R(20),
        cells |-> [i \in 1..4 |->
                     [text |-> texts[i], x |-> R(xs[i]), y |-> R(20), page |-> 1]]]

\* a data row whose cells all lie at x = 160 and up to 6 further right (one
\* column start, at 160)
LastColumnRow ==
    [NarrowRowAt(0) EXCEPT !.cells =
        [i \in 1..4 |-> [@[i] EXCEPT !.x = R(160 + 2 * (i - 1))]]]

\* a rows of one layout then b rows of the other; or 30 rows (6 of the first
\* layout, 19 with the last column only, 5 of the second layout) followed by
\* b more rows of the second layout; no header row is passed
InitSample ==
    /\ pc = "sample"
    /\ \E a \in 0..MaxPerLayout, b \in 0..MaxFewer :
          \/ rows = Copies(NarrowRowAt(0), a) \o Copies(NarrowRowAt(1), b)
          \/ rows = Copies(NarrowRowAt(1), a) \o Copies(NarrowRowAt(0), b)
          \/ rows = Copies(NarrowRowAt(0), 6) \o Copies(LastColumnRow, 19)
                        \o Copies(NarrowRowAt(1), 5 + b)
    /\ header = <<>>
    /\ exploded = <<>> /\ headerIdx = -1 /\ stops = <<>> /\ table = <<>>
    /\ NoPreeti /\ NoCsv /\ NoGroup /\ NoHook

SpecSample == InitSample /\ [][Infer]_vars

-----------------------------------------------------------------------------
(* usePdfExtractor *)

\* name.lastIndexOf(".") === -1 ? name : name.slice(0, dot)
basenameNoExt(name) ==
    LET dots == {i \in DOMAIN name : name[i] = 46}
    IN IF dots = {} THEN name
       ELSE SubSeq(name, 1, (CHOOSE i \in dots : \A j \in dots : j <= i) - 1)

\* the end (an index of t) of the match of
\* /[0-9]{6,}[0-9/-]*\/[0-9]{1,2}(?:-[0-9]{1,2})?/ that starts at p, or 0
MemberIdMatchEnd(t, p) ==
    LET inClass(i) == i <= Len(t) /\ (IsDigit(t[i]) \/ t[i] \in {47, 45})
        isDigitAt(i) == i <= Len(t) /\ IsDigit(t[i])
        run == {e \in p..Len(t) : \A i \in p..e : inClass(i)}
        slashes == {q \in run : q >= p + 6 /\ t[q] = 47 /\ isDigitAt(q + 1)}
    IN IF ~(\A i \in p..(p + 5) : isDigitAt(i)) \/ slashes = {} THEN 0
       ELSE LET q == CHOOSE x \in slashes : \A y \in slashes : y <= x
                a == IF isDigitAt(q + 2) THEN q + 2 ELSE q + 1
            IN IF a + 1 <= Len(t) /\ t[a + 1] = 45 /\ isDigitAt(a + 2)
               THEN (IF isDigitAt(a + 3) THEN a + 3 ELSE a + 2)
               ELSE a

\* text.match(MEMBER_ID_GLOBAL_RE): the number of matches found from p on
RECURSIVE CountMemberIdsFrom(_, _)
CountMemberIdsFrom(t, p) ==
    IF p > Len(t) THEN 0
    ELSE IF MemberIdMatchEnd(t, p) = 0 THEN CountMemberIdsFrom(t, p + 1)
    ELSE 1 + CountMemberIdsFrom(t, MemberIdMatchEnd(t, p) + 1)

countMemberIdsInRowText(text) == CountMemberIdsFrom(text, 1)

DEFAULT_Y_TOLERANCE == R(2)

DEFAULT_PREVIEW_ROWS == 40

\* at least 25 cells and at least 2 member IDs in the joined text
IsMergedLike(r) ==
    /\ Len(r.cells) >= 25
    /\ countMemberIdsInRowText(Join(CellTexts(r.cells), <<32>>)) >= 2

\* groupedRows after the merged-like test: the rows grouped with the default
\* tolerance, or the cells grouped again with tolerance 0.8 when 3 or more of
\* those rows are merged-like
Regrouped(cells, groupedRows) ==
    IF Len(SelectSeq(groupedRows, IsMergedLike)) >= 3
    THEN groupIntoRows(cells, Q(4, 5))
    ELSE groupedRows

\* normalizedRows = explodeMultiRecordRows(groupedRows)
NormalizedRows(cells) ==
    explodeMultiRecordRows(Regrouped(cells, groupIntoRows(cells, DEFAULT_Y_TOLERANCE)))

\* "Column " followed by the decimal digits of n
RECURSIVE Decimal(_)
Decimal(n) == IF n < 10 THEN <<48 + n>> ELSE Decimal(n \div 10) \o <<48 + (n % 10)>>

\* (cell || "").trim() || `Column ${idx + 1}`
SafeHeader(first) ==
    [i \in DOMAIN first |->
        IF Trim(first[i]) = <<>> THEN <<67, 111, 108, 117, 109, 110, 32>> \o Decimal(i)
        ELSE Trim(first[i])]

\* table.slice(1, Math.max(1, DEFAULT_PREVIEW_ROWS))
PreviewBody(t) ==
    LET hi == IF Len(t) < DEFAULT_PREVIEW_ROWS THEN Len(t) ELSE DEFAULT_PREVIEW_ROWS
    IN SubSeq(t, 2, hi)

\* the warnings, processing texts and export statuses the hook sets
HeaderNotFoundWarning == "Could not find the table header row."
SingleColumnWarning == "Column boundaries were not confidently inferred."
ExtractionFailedWarning == "Extraction failed"
ExtractingText == "Extracting"
ReadyText == "Ready to download."
NoDataRowsText == "No data rows found."
CsvStatus == "Downloaded CSV (UTF-8 with BOM for Excel)."
XlsxStatus == "Downloaded Excel."

\* stops and table, given normalizedRows and the index of the header in them
TableWith(normalizedRows, hIdx, st) ==
    [normalizedRows |-> normalizedRows, headerIdx |-> hIdx, stops |-> st,
     table |-> collectMainTable(normalizedRows, st, hIdx)]

\* what the synchronous part of onPdfChange computes from normalizedRows and
\* headerIdx: when the header is found, the stops and the table
Assembled(normalizedRows, hIdx) ==
    IF hIdx = -1 THEN [normalizedRows |-> normalizedRows, headerIdx |-> -1,
                       stops |-> <<>>, table |-> <<>>]
    ELSE TableWith(normalizedRows, hIdx,
                   inferColumnStopsFromDataRows(WithoutIndex(normalizedRows, hIdx), TRUE,
                                                sanitizeHeaderRow(normalizedRows[hIdx + 1])))

Extracted(normalizedRows) == Assembled(normalizedRows, findHeaderRowIndex(normalizedRows))

Extract(cells) == Extracted(NormalizedRows(cells))

-----------------------------------------------------------------------------
(* Runs of usePdfExtractor *)

MaxRuns == 2

MaxDownloads == 1

\* the cells of a row, at height y of page 1
CellsAt(row, y) ==
    [i \in DOMAIN row.cells |-> [row.cells[i] EXCEPT !.y = R(y), !.page = 1]]

\* a header line with a first record merged into it
RepeatedHeader ==
    [HeaderLine EXCEPT !.cells =
        @ \o <<[text |-> SerialText(1), x |-> R(200), y |-> R(30), page |-> 1],
               [text |-> MemberIdText(1), x |-> R(240), y |-> R(30), page |-> 1],
               [text |-> WordText(1), x |-> R(280), y |-> R(30), page |-> 1]>>]

\* a header and three records in the same columns
TableCells ==
    CellsAt(HeaderLine, 100) \o CellsAt(DataRowAt(0), 80)
        \o CellsAt(DataRowAt(0), 60) \o CellsAt(DataRowAt(0), 40)

\* two records and no header
NoHeaderCells == CellsAt(DataRowAt(0), 80) \o CellsAt(DataRowAt(0), 60)

\* a header of two labels 10 apart and one record
NarrowCells == CellsAt(NarrowHeader, 100) \o CellsAt(DataRowAt(0), 80)

\* the same, followed by a second header with a record merged into it
RepeatCells == NarrowCells \o CellsAt(RepeatedHeader, 60)

\* the files the user may pick: a name, a size in bytes and the cells that
\* extractAllPagesFromPdfArrayBuffer finds in it
PdfFiles ==
    { [name |-> <<97, 46, 112, 100, 102>>, size |-> 1536, cells |-> TableCells],
      [name |-> <<98, 46, 112, 100, 102>>, size |-> 2048, cells |-> NoHeaderCells],
      [name |-> <<46, 112, 100, 102>>, size |-> 100, cells |-> NarrowCells],
      [name |-> <<99>>, size |-> 3000, cells |-> RepeatCells] }

\* Extract, once for every file
Extraction == [f \in PdfFiles |-> Extract(f.cells)]

InitHook ==
    /\ pc = "hook"
    /\ NoHook
    /\ NoPreeti /\ NoCsv /\ NoGroup /\ NoTable

\* the state values onPdfChange resets before it looks at the file
ResetUi ==
    [ui EXCEPT !.exportStatus = "", !.warning = "", !.processingText = "",
               !.tableMeta = <<>>, !.header = <<>>, !.rows = <<>>]

\* onPdfChange with no file selected
ChangeNoFile ==
    /\ pc = "hook"
    /\ ui' = [ResetUi EXCEPT !.pdfName = <<>>, !.pdfSizeKb = 0]
    /\ lastTable' = <<>>
    /\ UNCHANGED <<pc, lastBaseName, extractRunId, runs, downloads,
                   preetiVars, csvVars, groupVars, tableVars>>

\* onPdfChange with a file, up to its first await
ChangeFile ==
    /\ pc = "hook"
    /\ Len(runs) < MaxRuns
    /\ \E file \in PdfFiles :
          /\ ui' = [ResetUi EXCEPT !.pdfName = file.name,
                                   !.pdfSizeKb = (file.size + 512) \div 1024,
                                   !.busy = TRUE,
                                   !.processingText = ExtractingText]
          /\ lastTable' = <<>>
          /\ lastBaseName' = (IF basenameNoExt(file.name) = <<>>
                              THEN <<116, 97, 98, 108, 101>>
                              ELSE basenameNoExt(file.name))
          /\ extractRunId' = extractRunId + 1
          /\ runs' = Append(runs, [file |-> file, runId |-> extractRunId + 1,
                                   at |-> "arrayBuffer", exit |-> "none",
                                   normalizedRows |-> <<>>, headerIdx |-> -1,
                                   stops |-> <<>>])
    /\ UNCHANGED <<pc, downloads, preetiVars, csvVars, groupVars, tableVars>>

\* "if (runId !== extractRunIdRef.current) return;" and the finally block,
\* which leaves busy alone for such a run
ReturnStale(r) ==
    /\ runs' = [runs EXCEPT ![r].at = "returned", ![r].exit = "stale"]
    /\ UNCHANGED <<ui, lastTable>>

\* Catch with the test runId === extractRunIdRef.current of the finally
\* block left out
Catch_ClearsBusy(r) ==
    /\ lastTable' = <<>>
    /\ ui' = [ui EXCEPT !.warning = ExtractionFailedWarning,
                        !.processingText = "",
                        !.busy = FALSE]
    /\ runs' = [runs EXCEPT ![r].at = "returned", ![r].exit = "failed"]

\* the catch block, then the finally block
Catch(r) ==
    /\ lastTable' = <<>>
    /\ ui' = [ui EXCEPT !.warning = ExtractionFailedWarning,
                        !.processingText = "",
                        !.busy = IF runs[r].runId = extractRunId THEN FALSE ELSE @]
    /\ runs' = [runs EXCEPT ![r].at = "returned", ![r].exit = "failed"]

\* file.arrayBuffer() resolves
BufferResolves ==
    /\ pc = "hook"
    /\ \E r \in DOMAIN runs :
          /\ runs[r].at = "arrayBuffer"
          /\ IF runs[r].runId # extractRunId THEN ReturnStale(r)
             ELSE /\ runs' = [runs EXCEPT ![r].at = "extract"]
                  /\ UNCHANGED <<ui, lastTable>>
    /\ UNCHANGED <<pc, lastBaseName, extractRunId, downloads,
                   preetiVars, csvVars, groupVars, tableVars>>

\* file.arrayBuffer() rejects
BufferRejects ==
    /\ pc = "hook"
    /\ \E r \in DOMAIN runs : runs[r].at = "arrayBuffer" /\ Catch(r)
    /\ UNCHANGED <<pc, lastBaseName, extractRunId, downloads,
                   preetiVars, csvVars, groupVars, tableVars>>

\* Finish taking the header-not-found return when the stops are empty
Finish_FailsWithoutStops(r, x) ==
    IF x.headerIdx = -1 \/ x.stops = <<>> THEN
        /\ lastTable' = <<>>
        /\ ui' = [ui EXCEPT !.warning = HeaderNotFoundWarning,
                            !.processingText = "", !.busy = FALSE]
        /\ runs' = [runs EXCEPT ![r].at = "returned", ![r].exit = "noHeader",
                                ![r].normalizedRows = x.normalizedRows,
                                ![r].headerIdx = x.headerIdx, ![r].stops = x.stops]
    ELSE
        /\ lastTable' = <<x.table>>
        /\ ui' = [ui EXCEPT
                    !.header = SafeHeader(x.table[1]),
                    !.rows = PreviewBody(x.table),
                    !.tableMeta = <<[dataRows |-> Len(x.table) - 1,
                                     columns |-> Len(x.table[1])]>>,
                    !.processingText = IF Len(x.table) > 1 THEN ReadyText
                                       ELSE NoDataRowsText,
                    !.busy = FALSE]
        /\ runs' = [runs EXCEPT ![r].at = "returned", ![r].exit = "stored",
                                ![r].normalizedRows = x.normalizedRows,
                                ![r].headerIdx = x.headerIdx, ![r].stops = x.stops]

\* the part of onPdfChange after the second await, for the run r that is
\* still the current one and the result x of the extraction, then the finally
\* block
Finish(r, x) ==
    IF x.headerIdx = -1 THEN
        /\ lastTable' = <<>>
        /\ ui' = [ui EXCEPT !.warning = HeaderNotFoundWarning,
                            !.processingText = "", !.busy = FALSE]
        /\ runs' = [runs EXCEPT ![r].at = "returned", ![r].exit = "noHeader",
                                ![r].normalizedRows = x.normalizedRows]
    ELSE
        /\ lastTable' = <<x.table>>
        /\ ui' = [ui EXCEPT
                    !.header = IF x.table = <<>> THEN <<>> ELSE SafeHeader(x.table[1]),
                    !.rows = PreviewBody(x.table),
                    !.tableMeta = <<[dataRows |-> Len(x.table) - 1,
                                     columns |-> IF x.table = <<>> THEN 0
                                                 ELSE Len(x.table[1])]>>,
                    !.warning = IF x.stops = <<>> THEN SingleColumnWarning ELSE @,
                    !.processingText = IF Len(x.table) > 1 THEN ReadyText
                                       ELSE NoDataRowsText,
                    !.busy = FALSE]
        /\ runs' = [runs EXCEPT ![r].at = "returned", ![r].exit = "stored",
                                ![r].normalizedRows = x.normalizedRows,
                                ![r].headerIdx = x.headerIdx, ![r].stops = x.stops]

\* extractAllPagesFromPdfArrayBuffer(buf) resolves
ExtractResolves ==
    /\ pc = "hook"
    /\ \E r \in DOMAIN runs :
          /\ runs[r].at = "extract"
          /\ IF runs[r].runId # extractRunId THEN ReturnStale(r)
             ELSE Finish(r, Extraction[runs[r].file])
    /\ UNCHANGED <<pc, lastBaseName, extractRunId, downloads,
                   preetiVars, csvVars, groupVars, tableVars>>

\* extractAllPagesFromPdfArrayBuffer(buf) rejects
ExtractRejects ==
    /\ pc = "hook"
    /\ \E r \in DOMAIN runs : runs[r].at = "extract" /\ Catch(r)
    /\ UNCHANGED <<pc, lastBaseName, extractRunId, downloads,
                   preetiVars, csvVars, groupVars, tableVars>>

\* downloadCsv: the blob is the byte order mark followed by the CSV text
downloadCsv ==
    /\ pc = "hook"
    /\ Len(downloads) < MaxDownloads
    /\ IF lastTable = <<>> THEN UNCHANGED <<ui, downloads>>
       ELSE /\ downloads' = Append(downloads,
                                  [filename |-> lastBaseName \o <<46, 99, 115, 118>>,
                                   type |-> "text/csv;charset=utf-8",
                                   content |-> <<<<65279>> \o toCsv(lastTable[1])>>])
            /\ ui' = [ui EXCEPT !.exportStatus = CsvStatus]
    /\ UNCHANGED <<pc, lastTable, lastBaseName, extractRunId, runs,
                   preetiVars, csvVars, groupVars, tableVars>>

\* downloadXlsx: the blob is a workbook of one sheet made of the table
downloadXlsx ==
    /\ pc = "hook"
    /\ Len(downloads) < MaxDownloads
    /\ IF lastTable = <<>> THEN UNCHANGED <<ui, downloads>>
       ELSE /\ downloads' = Append(downloads,
                                  [filename |-> lastBaseName \o <<46, 120, 108, 115, 120>>,
                                   type |-> "spreadsheetml.sheet",
                                   content |-> lastTable[1]])
            /\ ui' = [ui EXCEPT !.exportStatus = XlsxStatus]
    /\ UNCHANGED <<pc, lastTable, lastBaseName, extractRunId, runs,
                   preetiVars, csvVars, groupVars, tableVars>>

NextHook ==
    \/ ChangeNoFile \/ ChangeFile
    \/ BufferResolves \/ BufferRejects
    \/ ExtractResolves \/ ExtractRejects
    \/ downloadCsv \/ downloadXlsx

SpecHook == InitHook /\ [][NextHook]_vars

\* the promise that run r awaits settles: it resolves or rejects
Settles(r) ==
    /\ BufferResolves \/ BufferRejects \/ ExtractResolves \/ ExtractRejects
    /\ r \in DOMAIN runs
    /\ runs'[r].at # runs[r].at

\* every promise that a run awaits settles in the end
SpecHookSettling == SpecHook /\ \A r \in 1..MaxRuns : WF_vars(Settles(r))

-----------------------------------------------------------------------------
(* Passes of the engine over one list of fragment objects: frags holds the  *)
(* list and its objects as the calls leave them, grouped and exploded hold  *)
(* the rows returned, whose cells are those objects or new ones             *)

MaxLines == 2

\* the texts of record n: a serial, a member ID and two words, all its own
PassTexts(n) ==
    << <<48 + n>>, [MemberIdText(1) EXCEPT ![6] = 48 + n], <<64 + 2 * n - 1>>, <<64 + 2 * n>> >>

\* record n printed from x = start at height y of page 1, a cell every 40
PassRecord(n, start, y) ==
    [i \in 1..4 |-> [text |-> PassTexts(n)[i], x |-> R(start + 40 * (i - 1)),
                     y |-> R(y), page |-> 1]]

\* line j at height y: one record (d = 0), or two records d apart
PassLine(j, d, y) ==
    PassRecord(2 * j - 1, 0, y) \o (IF d = 0 THEN <<>> ELSE PassRecord(2 * j, d, y))

\* the lines below the header: the first at y = 80, each next one dy lower
RECURSIVE PassLines(_, _)
PassLines(ds, dy) ==
    IF ds = <<>> THEN <<>>
    ELSE PassLines(SubSeq(ds, 1, Len(ds) - 1), dy)
         \o PassLine(Len(ds), ds[Len(ds)], 80 - dy * (Len(ds) - 1))

Reversed(s) == [i \in DOMAIN s |-> s[Len(s) + 1 - i]]

\* the fragment lists: the header line and 1 to MaxLines lines 1 or 20 apart,
\* in reading order or in the opposite order
PassInputs ==
    LET docs == {CellsAt(HeaderLine, 100) \o PassLines(ds, dy) :
                    ds \in UNION {[1..n -> {0} \cup Distances] : n \in 1..MaxLines},
                    dy \in {1, 20}}
    IN docs \cup {Reversed(doc) : doc \in docs}

InitPasses ==
    /\ pc = "cells"
    /\ frags \in PassInputs
    /\ fresh = frags
    /\ yTol \in {DEFAULT_Y_TOLERANCE, Q(4, 5)}
    /\ grouped = <<>>
    /\ NoPreeti /\ NoCsv /\ NoTable /\ NoHook

\* the cell objects of row after explodeMultiRecordRow(row) returned out: a
\* cell that was mapped to a re-zeroed one is what the map left of it
CellsLeftByExplode(row, out) ==
    IF out = <<row>> THEN row.cells
    ELSE [k \in DOMAIN row.cells |->
            LET c == row.cells[k]
                emitted == {e \in UNION {Range(out[b].cells) : b \in DOMAIN out} :
                               e.text = c.text}
            IN IF emitted = {} THEN c
               ELSE LeftByShift(<<c>>, RSub(c.x, (CHOOSE e \in emitted : TRUE).x))[1]]

\* the object of the list that carries the text of cell c, among the cells
\* of rows rs
ObjectIn(rs, c) ==
    CHOOSE o \in UNION {Range(rs[r].cells) : r \in DOMAIN rs} : o.text = c.text

\* let groupedRows = groupIntoRows(cells, DEFAULT_Y_TOLERANCE)
GroupPass ==
    /\ pc = "cells"
    /\ grouped' = groupIntoRows(frags, DEFAULT_Y_TOLERANCE)
    /\ frags' = LeftBySort(frags)
    /\ pc' = "grouped1"
    /\ UNCHANGED <<fresh, yTol, preetiVars, csvVars, tableVars, hookVars>>

\* the rows of groupedRows hold the objects of the list: left is those rows
\* as the call leaves them
ExplodeLeaves(left) ==
    /\ grouped' = left
    /\ frags' = [i \in DOMAIN frags |-> ObjectIn(left, frags[i])]

\* let normalizedRows = explodeMultiRecordRows(groupedRows)
ExplodePass ==
    /\ pc = "grouped1"
    /\ exploded' = explodeMultiRecordRows(grouped)
    /\ ExplodeLeaves([r \in DOMAIN grouped |->
                        [grouped[r] EXCEPT !.cells =
                            CellsLeftByExplode(grouped[r], explodeMultiRecordRow(grouped[r]))]])
    /\ pc' = "exploded1"
    /\ UNCHANGED <<fresh, yTol, rows, headerIdx, header, stops, table,
                   preetiVars, csvVars, hookVars>>

\* the locals headerIdx, stops and table of the caller
AssembleGives(x) ==
    /\ headerIdx' = x.headerIdx
    /\ stops' = x.stops
    /\ table' = x.table

\* findHeaderRowIndex, sanitizeHeaderRow, inferColumnStopsFromDataRows and
\* collectMainTable read normalizedRows and write only what they return
AssemblePass ==
    /\ pc = "exploded1"
    /\ AssembleGives(Extracted(exploded))
    /\ pc' = "assembled1"
    /\ UNCHANGED <<rows, exploded, header, preetiVars, csvVars, groupVars, hookVars>>

\* groupedRows = groupIntoRows(cells, yTolerance), over the same list
RegroupPass ==
    /\ pc = "assembled1"
    /\ rows' = groupIntoRows(frags, yTol)
    /\ frags' = LeftBySort(frags)
    /\ pc' = "regrouped"
    /\ UNCHANGED <<fresh, yTol, grouped, exploded, headerIdx, header, stops, table,
                   preetiVars, csvVars, hookVars>>

NextPasses == GroupPass \/ ExplodePass \/ AssemblePass \/ RegroupPass

SpecPasses == InitPasses /\ [][NextPasses]_vars

-----------------------------------------------------------------------------
(* C10: maybePreetiToUnicode is never destructive.  The result is the     *)
(* input when the input holds a Devanagari character, is empty or blank,  *)
(* is made of digits and punctuation only, has at least 60% digits among  *)
(* its non-space characters, or the conversion throws or yields no        *)
(* Devanagari character; otherwise it is the conversion output, which     *)
(* holds a Devanagari character.                                          *)

C10_HasDev(t) == Range(t) \cap (2304..2431) # {}

C10_Ink(t) == {i \in DOMAIN t : t[i] \notin SpaceChars}

C10_Keeps ==
    \/ C10_HasDev(preetiIn)
    \/ C10_Ink(preetiIn) = {}
    \/ \A i \in C10_Ink(preetiIn) :
           preetiIn[i] \in (48..57) \cup {43, 45, 40, 41, 47, 46, 44, 58}
    \/ 5 * Cardinality({i \in C10_Ink(preetiIn) : preetiIn[i] \in 48..57})
           >= 3 * Cardinality(C10_Ink(preetiIn))
    \/ preetiConv.threw
    \/ ~C10_HasDev(preetiConv.out)

C10_NeverDestructive ==
    pc = "preetiDone" =>
        IF C10_Keeps THEN preetiOut = preetiIn
        ELSE preetiOut = preetiConv.out /\ C10_HasDev(preetiOut)

C10_Witness ==
    /\ pc = "preetiDone"
    /\ ~C10_Keeps
    /\ preetiOut = preetiConv.out
    /\ preetiOut # preetiIn

-----------------------------------------------------------------------------
(* C9: CSV round trip.  Parsing toCsv(table) with an RFC 4180 parser      *)
(* (quoted fields, doubled quotes, LF between records, the last LF ends   *)
(* the last record) gives back the table, cell by cell.                   *)

RECURSIVE C9_Scan(_, _, _, _, _, _)
C9_Scan(s, i, mode, field, record, records) ==
    IF i > Len(s) THEN
        IF mode = "start" /\ record = <<>> THEN records
        ELSE Append(records, Append(record, field))
    ELSE LET c == s[i] IN
      CASE mode = "quoted" /\ c = 34 ->
               C9_Scan(s, i + 1, "closing", field, record, records)
        [] mode = "quoted" /\ c # 34 ->
               C9_Scan(s, i + 1, "quoted", Append(field, c), record, records)
        [] mode = "closing" /\ c = 34 ->
               C9_Scan(s, i + 1, "quoted", Append(field, 34), record, records)
        [] mode = "start" /\ c = 34 ->
               C9_Scan(s, i + 1, "quoted", <<>>, record, records)
        [] mode # "quoted" /\ c = 44 ->
               C9_Scan(s, i + 1, "start", <<>>, Append(record, field), records)
        [] mode # "quoted" /\ c = 10 ->
               C9_Scan(s, i + 1, "start", <<>>, <<>>,
                       Append(records, Append(record, field)))
        [] OTHER ->
               C9_Scan(s, i + 1, "plain", Append(field, c), record, records)

C9_Parse(s) == C9_Scan(s, 1, "start", <<>>, <<>>, <<>>)

C9_RoundTrip == pc = "csvDone" => C9_Parse(csvText) = csvTable

C9_Witness ==
    /\ pc = "csvDone"
    /\ \E r \in DOMAIN csvTable : \E k \in DOMAIN csvTable[r] :
           {44, 10, 34} \subseteq Range(csvTable[r][k])
    /\ C9_Parse(csvText) = csvTable

-----------------------------------------------------------------------------
(* The splitter's output for one input row.  An emitted row keeps the page *)
(* and y of the row it was cut from, and the runs below put every input    *)
(* row on a (page, y) of its own.                                          *)

EmittedFor(row) == SelectSeq(exploded, LAMBDA r : r.page = row.page /\ r.y = row.y)

RECURSIVE RowCells(_)
RowCells(rs) == IF rs = <<>> THEN <<>> ELSE Head(rs).cells \o RowCells(Tail(rs))

CountText(cells, t) == Cardinality({i \in DOMAIN cells : cells[i].text = t})

Texts(cells) == {cells[i].text : i \in DOMAIN cells}

-----------------------------------------------------------------------------
-----------------------------------------------------------------------------
(* C3: fail-safe non-split.  As stated: a row with exactly one member-ID  *)
(* cell and no gap of 140 or more between consecutive cells is returned   *)
(* unchanged.  This fails: the gap the code measures is the one between   *)
(* record starts, which may span several cells.                            *)

C3_OneId(row) ==
    Cardinality({i \in DOMAIN row.cells : looksLikeMemberId(row.cells[i].text)}) = 1

C3_NoCellGap(row) ==
    \A i \in 1..(Len(row.cells) - 1) :
        RLt(RSub(row.cells[i + 1].x, row.cells[i].x), R(140))

C3_Unchanged ==
    pc # "grouped" =>
        \A i \in DOMAIN rows :
            C3_OneId(rows[i]) /\ C3_NoCellGap(rows[i]) => EmittedFor(rows[i]) = <<rows[i]>>

\* a record-start cell: 1 to 4 digits, the first cell or 60 or more to the
\* right of the cell before it, a member ID within 320 to its right
C3_Start(row, i) ==
    /\ IsSerialText(row.cells[i].text)
    /\ i = 1 \/ RLe(R(60), RSub(row.cells[i].x, row.cells[i - 1].x))
    /\ \E j \in DOMAIN row.cells :
          /\ looksLikeMemberId(row.cells[j].text)
          /\ RLt(row.cells[i].x, row.cells[j].x)
          /\ RLe(RSub(row.cells[j].x, row.cells[i].x), R(320))

C3_StartsClose(row) ==
    \A i, j \in DOMAIN row.cells :
        (/\ C3_Start(row, i) /\ C3_Start(row, j)
         /\ RLt(row.cells[i].x, row.cells[j].x)
         /\ ~\E k \in DOMAIN row.cells :
                /\ C3_Start(row, k)
                /\ RLt(row.cells[i].x, row.cells[k].x)
                /\ RLt(row.cells[k].x, row.cells[j].x))
        => RLt(RSub(row.cells[j].x, row.cells[i].x), R(140))

(* C3 as amended: a row (cells in ascending x) with exactly one member-ID *)
(* cell and no gap of 140 or more between consecutive record-start cells  *)
(* is returned unchanged, as a single row with the same cells in the same *)
(* order.                                                                  *)
C3_UnchangedByStarts ==
    pc # "grouped" =>
        \A i \in DOMAIN rows :
            C3_OneId(rows[i]) /\ C3_StartsClose(rows[i]) => EmittedFor(rows[i]) = <<rows[i]>>

\* a row with one member ID and two record starts less than 140 apart, unchanged
C3_Witness ==
    /\ pc # "grouped"
    /\ \E i \in DOMAIN rows :
          /\ C3_OneId(rows[i]) /\ C3_StartsClose(rows[i])
          /\ Cardinality({k \in DOMAIN rows[i].cells : C3_Start(rows[i], k)}) >= 2
          /\ EmittedFor(rows[i]) = <<rows[i]>>

-----------------------------------------------------------------------------
(* C4: a row holding two complete records, the second starting 200 to the *)
(* right of the first, each with a serial as first cell, a member ID and  *)
(* at least 4 cells, is split into exactly two rows, the first with the   *)
(* first record's serial and member ID and nothing of the second record,  *)
(* the second with the second record's; and the table then has the header *)
(* row and two data rows.                                                   *)

C4_Record(row, k) ==
    SelectSeq(row.cells,
              LAMBDA c : c.text \in {SerialText(k), MemberIdText(k), WordText(k)})

C4_TwoRecords(row) ==
    LET a == C4_Record(row, 1)
        b == C4_Record(row, 2)
    IN /\ Len(a) >= 4 /\ Len(a) = Len(b)
       /\ a[1].text = SerialText(1) /\ b[1].text = SerialText(2)
       /\ \E i \in DOMAIN a : a[i].text = MemberIdText(1)
       /\ \A i \in DOMAIN a :
             /\ b[i].x = RAdd(a[i].x, R(200))
             /\ a[i].text = MemberIdText(1) <=> b[i].text = MemberIdText(2)

C4_Split(row) ==
    LET em == EmittedFor(row) IN
    /\ Len(em) = 2
    /\ {SerialText(1), MemberIdText(1)} \subseteq Texts(em[1].cells)
    /\ Texts(em[1].cells) \cap {SerialText(2), MemberIdText(2), WordText(2)} = {}
    /\ {SerialText(2), MemberIdText(2)} \subseteq Texts(em[2].cells)

C4_TwoRecordsSplit ==
    \A i \in DOMAIN rows :
        C4_TwoRecords(rows[i]) =>
            /\ pc # "grouped" => C4_Split(rows[i])
            /\ pc = "assembled" => Len(table) = 3

-----------------------------------------------------------------------------
(* The grouper's output for two fragments of the input (the fragments of   *)
(* a run differ in their text)                                              *)

InSameRow(a, b) ==
    \E r \in DOMAIN grouped : {a, b} \subseteq Range(grouped[r].cells)

WithinTolerance(a, b) ==
    a.page = b.page /\ RLe(RAbs(RSub(a.y, b.y)), yTol)

-----------------------------------------------------------------------------
(* C6: grouping, same row.  As stated: two fragments on the same page     *)
(* whose y differ by at most yTolerance end up in the same row.  This     *)
(* fails: a fragment is compared with the running average y of a row, and *)
(* the average of a row that has taken a lower fragment is no longer the  *)
(* y of its first fragment.                                                *)
C6_SameRow ==
    pc = "groupDone" =>
        \A i, j \in DOMAIN frags :
            WithinTolerance(frags[i], frags[j]) => InSameRow(frags[i], frags[j])

\* a is a fragment of largest y in its row
C6_TopOfRow(a) ==
    \A r \in DOMAIN grouped :
        a \in Range(grouped[r].cells) =>
            \A k \in DOMAIN grouped[r].cells : RLe(grouped[r].cells[k].y, a.y)

(* C6 as amended: two fragments A and B on the same page whose y differ   *)
(* by at most yTolerance end up in the same row when the upper of the two *)
(* (the one of larger or equal y) has the largest y of its row.           *)
C6_SameRowAsTop ==
    pc = "groupDone" =>
        \A i, j \in DOMAIN frags :
            (/\ WithinTolerance(frags[i], frags[j])
             /\ RLe(frags[j].y, frags[i].y)
             /\ C6_TopOfRow(frags[i]))
            => InSameRow(frags[i], frags[j])

\* a row of three fragments of three different y, the lowest one exactly
\* yTolerance below the top one
C6_Witness ==
    /\ pc = "groupDone"
    /\ \E i, j, k \in DOMAIN frags :
          /\ RLt(frags[j].y, frags[k].y) /\ RLt(frags[k].y, frags[i].y)
          /\ RSub(frags[i].y, frags[j].y) = yTol
          /\ C6_TopOfRow(frags[i])
          /\ InSameRow(frags[i], frags[j]) /\ InSameRow(frags[i], frags[k])

-----------------------------------------------------------------------------
(* C7: grouping, different rows.  Two fragments on different pages, or on *)
(* the same page with y more than yTolerance apart and no fragment of the *)
(* page with y strictly between theirs, never share a row.                *)

C7_NoneBetween(a, b) ==
    ~\E k \in DOMAIN frags :
        /\ frags[k].page = a.page
        /\ \/ RLt(a.y, frags[k].y) /\ RLt(frags[k].y, b.y)
           \/ RLt(b.y, frags[k].y) /\ RLt(frags[k].y, a.y)

C7_DifferentRows ==
    pc = "groupDone" =>
        \A i, j \in DOMAIN frags :
            (\/ frags[i].page # frags[j].page
             \/ /\ frags[i].page = frags[j].page
                /\ RLt(yTol, RAbs(RSub(frags[i].y, frags[j].y)))
                /\ C7_NoneBetween(frags[i], frags[j]))
            => ~InSameRow(frags[i], frags[j])

\* two fragments at the same x and y on different pages, and on page 1 a
\* third one 3 below with nothing between: three rows
C7_Witness ==
    /\ pc = "groupDone"
    /\ Len(grouped) = 3
    /\ \E i, j, k \in DOMAIN frags :
          /\ frags[i].page = 1 /\ frags[j].page = 2 /\ frags[k].page = 1
          /\ frags[i].y = frags[j].y /\ frags[i].x = frags[j].x
          /\ RSub(frags[i].y, frags[k].y) = R(3)

-----------------------------------------------------------------------------
(* C5: order preservation.  The output of explodeMultiRecordRows is       *)
(* sorted by (page ascending, y descending); and when the input is in     *)
(* that order already, the output is the rows emitted for the first input *)
(* row, then those emitted for the second, and so on, the blocks of a     *)
(* split row from left to right by the x their cells had in the row.      *)

C5_InOrder(rs) ==
    \A i, j \in DOMAIN rs :
        i < j => /\ rs[i].page <= rs[j].page
                 /\ rs[i].page = rs[j].page => RLe(rs[j].y, rs[i].y)

\* the x the cells of a block had in the row it was cut from
C5_OriginalXs(row, block) ==
    {row.cells[i].x : i \in {k \in DOMAIN row.cells : row.cells[k].text \in Texts(block.cells)}}

C5_LeftToRight(row, blocks) ==
    \A a, b \in DOMAIN blocks :
        a < b => \A xa \in C5_OriginalXs(row, blocks[a]) :
                     \A xb \in C5_OriginalXs(row, blocks[b]) : RLt(xa, xb)

\* the number of rows emitted for the first n input rows
C5_EmittedBefore(n) ==
    LET f[i \in 0..n] ==
            IF i = 0 THEN 0 ELSE f[i - 1] + Len(explodeMultiRecordRow(rows[i]))
    IN f[n]

C5_OrderPreserved ==
    pc = "exploded" =>
        /\ C5_InOrder(exploded)
        /\ C5_InOrder(rows) =>
              /\ Len(exploded) = C5_EmittedBefore(Len(rows))
              /\ \A i \in DOMAIN rows :
                    LET from == C5_EmittedBefore(i - 1)
                        blocks == SubSeq(exploded, from + 1, C5_EmittedBefore(i))
                    IN /\ \A k \in DOMAIN blocks :
                             /\ blocks[k].page = rows[i].page /\ blocks[k].y = rows[i].y
                             /\ Texts(blocks[k].cells) \subseteq Texts(rows[i].cells)
                       /\ Len(blocks) = 1 => Texts(blocks[1].cells) = Texts(rows[i].cells)
                       /\ C5_LeftToRight(rows[i], blocks)

\* a document in order whose second row is split in two and whose third row,
\* on the same page and y as the second, is not split
C5_Witness ==
    /\ pc = "exploded"
    /\ Len(rows) = 3 /\ C5_InOrder(rows)
    /\ Len(explodeMultiRecordRow(rows[2])) = 2
    /\ rows[3].page = rows[2].page /\ rows[3].y = rows[2].y
    /\ Len(exploded) = 4
    /\ exploded[4] = rows[3]

-----------------------------------------------------------------------------
(* C1: for every list of rows, every stop list and every in-range         *)
(* headerIdx, the table returned by collectMainTable has a header row,    *)
(* and each of its rows has len(stops) + 1 columns when stops is          *)
(* non-empty and 1 column when it is empty.                                *)
C1_SameColumnCount ==
    (pc = "collected" /\ headerIdx >= 0 /\ headerIdx < Len(rows)) =>
        /\ table # <<>>
        /\ \A r \in DOMAIN table :
              Len(table[r]) = (IF stops = <<>> THEN 1 ELSE Len(stops) + 1)

\* a table of a header row and two data rows, five columns each, built with
\* the stops in ascending order from rows with no cell right of the last stop
\* but the last
C1_Witness ==
    /\ pc = "collected"
    /\ Len(stops) = 4
    /\ Len(table) = 3
    /\ \A r \in DOMAIN table : Len(table[r]) = 5
    /\ table[2][4] = <<>>

-----------------------------------------------------------------------------
(* C8: column inference degradation.  As stated: whenever fewer than 2    *)
(* significant column-start clusters are found in the sample,             *)
(* inferColumnStopsFromDataRows returns the stops derived from the        *)
(* sanitized header, or the empty list when no header is given.  This     *)
(* fails: with one significant cluster and a header cell more than 12 to  *)
(* its right, the header's rightmost x is taken as a second column.       *)

C8_Fallback ==
    IF header = <<>> THEN <<>>
    ELSE inferColumnStopsFromHeaderRow(sanitizeHeaderRow(header[1]))

C8_Significant == DataColumnXs(Sample(rows))

C8_FallsBack ==
    (pc = "inferred" /\ Len(C8_Significant) < 2) => stops = C8_Fallback

\* the header row has a cell more than 12 to the right of x
C8_HeaderBeyond(x) ==
    /\ header # <<>>
    /\ \E i \in DOMAIN header[1].cells : RLt(RAdd(x, R(12)), header[1].cells[i].x)

(* C8 as amended: whenever no significant column-start cluster is found   *)
(* in the sample, or exactly one is found and the header row (if given)   *)
(* has no cell more than 12 units to the right of it, the function        *)
(* returns the stops derived from the sanitized header; these are empty   *)
(* when the header yields fewer than 2 starts, and the empty list is      *)
(* returned when no header is given.                                       *)
C8_FallsBackUnlessTrailing ==
    (/\ pc = "inferred"
     /\ \/ Len(C8_Significant) = 0
        \/ Len(C8_Significant) = 1 /\ ~C8_HeaderBeyond(C8_Significant[1]))
    => /\ stops = C8_Fallback
       /\ header = <<>> => stops = <<>>
       /\ (header # <<>> /\ Len(AcceptStarts(StableSort(CellXs(sanitizeHeaderRow(header[1]).cells),
                                                         NumBefore), 34)) < 2) => stops = <<>>

\* three sampled rows with one significant cluster, a header given, and
\* the four stops of the header returned
C8_Witness ==
    /\ pc = "inferred"
    /\ Len(Sample(rows)) = 3
    /\ Len(C8_Significant) = 1
    /\ header # <<>>
    /\ ~C8_HeaderBeyond(C8_Significant[1])
    /\ Len(stops) = 4
    /\ stops = C8_Fallback

-----------------------------------------------------------------------------
(* C13: for every input, the rows returned by groupIntoRows are sorted by *)
(* (page ascending, y descending) and the cells of every returned row are *)
(* sorted by x ascending.                                                  *)
C13_RowsAndCellsSorted ==
    pc = "groupDone" =>
        /\ \A i, j \in DOMAIN grouped :
              i < j => /\ grouped[i].page <= grouped[j].page
                       /\ grouped[i].page = grouped[j].page => RLe(grouped[j].y, grouped[i].y)
        /\ \A r \in DOMAIN grouped :
              \A a, b \in DOMAIN grouped[r].cells :
                  a < b => RLe(grouped[r].cells[a].x, grouped[r].cells[b].x)

\* a row on page 1 and one on page 2, the first row holding a fragment at
\* x = 0 that was walked after a higher fragment at x = 10
C13_Witness ==
    /\ pc = "groupDone"
    /\ Len(grouped) = 2
    /\ grouped[1].page = 1 /\ grouped[2].page = 2
    /\ Len(grouped[1].cells) = 2
    /\ grouped[1].cells[1].x = R(0) /\ grouped[1].cells[2].x = R(10)
    /\ RLt(grouped[1].cells[1].y, grouped[1].cells[2].y)

-----------------------------------------------------------------------------
(* Blocks cut from a row *)

\* the least x of the cells of a block
LeastX(block) ==
    CHOOSE x \in {block.cells[k].x : k \in DOMAIN block.cells} :
        \A k \in DOMAIN block.cells : RLe(x, block.cells[k].x)

\* the cells of the block are cells of the row, all moved left by d
ShiftedCopy(block, row, d) ==
    \A k \in DOMAIN block.cells :
        \E i \in DOMAIN row.cells :
            /\ row.cells[i].text = block.cells[k].text
            /\ row.cells[i].x = RAdd(block.cells[k].x, d)

-----------------------------------------------------------------------------
(* C14: member-ID anchor strategy.  For a row with at least 2 member-ID   *)
(* x-clusters (tolerance 40) whose largest gap is 160 or more: when 2 or  *)
(* more of the anchor blocks have 4 or more cells, the result is those    *)
(* blocks, at least 2, each of at least 4 cells, each with least x = 0    *)
(* and with the x-distances its cells had in the row; when fewer than 2   *)
(* blocks have 4 or more cells the anchor path emits nothing and the row  *)
(* is left to the start-position strategies.                               *)

C14_Qualifying(row) ==
    {bi \in 1..Len(IdAnchors(row)) : Len(AnchorBlockCells(row, bi)) >= 4}

C14_AnchorStrategy ==
    pc # "grouped" =>
        \A i \in DOMAIN rows :
            LET row == rows[i]
                em == EmittedFor(row)
            IN AnchorsSeparated(row) =>
                 IF Cardinality(C14_Qualifying(row)) >= 2
                 THEN /\ Len(em) = Cardinality(C14_Qualifying(row))
                      /\ \A k \in DOMAIN em :
                            /\ Len(em[k].cells) >= 4
                            /\ LeastX(em[k]) = R(0)
                            /\ \E j \in DOMAIN row.cells : ShiftedCopy(em[k], row, row.cells[j].x)
                 ELSE em = <<row>> \/ em = StartBlocks(row)

\* a row cut at the midpoint of its two member-ID anchors, the second block
\* moved left by 200 or more
C14_Witness ==
    /\ pc # "grouped"
    /\ \E i \in DOMAIN rows :
          /\ AnchorsSeparated(rows[i])
          /\ Len(EmittedFor(rows[i])) = 2
          /\ LeastX(EmittedFor(rows[i])[2]) = R(0)
          /\ \E j \in DOMAIN rows[i].cells :
                /\ RLe(R(200), rows[i].cells[j].x)
                /\ ShiftedCopy(EmittedFor(rows[i])[2], rows[i], rows[i].cells[j].x)

-----------------------------------------------------------------------------
(* C15: on the start-position path (the anchor path has not returned) the *)
(* single original row is returned unmodified whenever the start          *)
(* positions form fewer than 2 clusters (tolerance 18), or the largest    *)
(* gap between consecutive start clusters is below 140, or no block has   *)
(* at least 4 cells; and every block that is emitted has at least 4       *)
(* cells.                                                                  *)

C15_NoBlockOfFour(row) ==
    \A bi \in 1..Len(Starts(row)) : Len(StartBlockCells(row, bi)) < 4

C15_StartPathFailSafe ==
    pc # "grouped" =>
        \A i \in DOMAIN rows :
            LET row == rows[i]
                em == EmittedFor(row)
            IN ~AnchorPathReturns(row) =>
                 /\ (\/ Len(Starts(row)) < 2
                     \/ RLt(MaxGap(Starts(row)), R(140))
                     \/ C15_NoBlockOfFour(row)) => em = <<row>>
                 /\ em # <<row>> => \A k \in DOMAIN em : Len(em[k].cells) >= 4

\* a row with two start clusters 140 or more apart and no block of 4 cells,
\* returned as it is
C15_Witness ==
    /\ pc # "grouped"
    /\ \E i \in DOMAIN rows :
          /\ ~AnchorPathReturns(rows[i])
          /\ Len(Starts(rows[i])) = 2
          /\ RLe(R(140), MaxGap(Starts(rows[i])))
          /\ C15_NoBlockOfFour(rows[i])
          /\ Len(StartBlockCells(rows[i], 1)) = 3
          /\ EmittedFor(rows[i]) = <<rows[i]>>

-----------------------------------------------------------------------------
(* C16: the blocks of the start-position path.  As stated: with start     *)
(* clusters start_0 < ... < start_n, a cell c of the row is placed in     *)
(* block i exactly when start_i <= c.x < start_{i+1} (the last block      *)
(* unbounded on the right), with x = c.x - start_i in the block, and the  *)
(* leftmost cell of every emitted block has x = 0.  This fails: the code  *)
(* cuts one unit to the left of every start.                               *)

\* the row splits on the start-position path
C16_SplitsAtStarts(row) ==
    /\ ~AnchorPathReturns(row)
    /\ Len(Starts(row)) >= 2
    /\ RLe(R(140), MaxGap(Starts(row)))
    /\ EmittedFor(row) # <<row>>

\* the cells of the row with lo <= x < hi (no upper limit for the last
\* block), their x taken from origin, as a set of [text, x]
C16_Interval(row, lo, hi, last, origin) ==
    {[text |-> row.cells[k].text, x |-> RSub(row.cells[k].x, origin)] :
        k \in {j \in DOMAIN row.cells :
                  /\ RLe(lo, row.cells[j].x)
                  /\ last \/ RLt(row.cells[j].x, hi)}}

C16_CellsOf(block) ==
    {[text |-> block.cells[k].text, x |-> block.cells[k].x] : k \in DOMAIN block.cells}

\* the blocks with at least 4 cells, cut `slack` to the left of every start
C16_Expected(row, slack) ==
    LET st == Starts(row)
        n == Len(st)
        f[i \in 0..n] ==
            IF i = 0 THEN <<>>
            ELSE LET cells == C16_Interval(row, RSub(st[i], slack),
                                           IF i = n THEN st[i] ELSE RSub(st[i + 1], slack),
                                           i = n, st[i])
                 IN IF Cardinality(cells) >= 4 THEN Append(f[i - 1], cells) ELSE f[i - 1]
    IN f[n]

C16_BlocksAre(row, slack) ==
    LET em == EmittedFor(row)
        ex == C16_Expected(row, slack)
    IN /\ Len(em) = Len(ex)
       /\ \A k \in DOMAIN em : C16_CellsOf(em[k]) = ex[k]

C16_CutAtStarts ==
    pc # "grouped" =>
        \A i \in DOMAIN rows :
            C16_SplitsAtStarts(rows[i]) =>
                /\ C16_BlocksAre(rows[i], R(0))
                /\ \A k \in DOMAIN EmittedFor(rows[i]) : LeastX(EmittedFor(rows[i])[k]) = R(0)

(* C16 as amended: a cell c of the row is placed in block i exactly when  *)
(* start_i - 1 <= c.x < start_{i+1} - 1 (the last block unbounded on the  *)
(* right), with x = c.x - start_i in the block; the blocks with at least  *)
(* 4 cells are emitted, in order, and no cell of an emitted block has x   *)
(* below -1.                                                               *)
C16_CutLeftOfStarts ==
    pc # "grouped" =>
        \A i \in DOMAIN rows :
            C16_SplitsAtStarts(rows[i]) =>
                /\ C16_BlocksAre(rows[i], R(1))
                /\ \A k \in DOMAIN EmittedFor(rows[i]) : RLe(R(-1), LeastX(EmittedFor(rows[i])[k]))

\* a row split at its starts, with a cell 1 left of the second start that
\* is the leftmost cell of the second block, at x = -1
C16_Witness ==
    /\ pc # "grouped"
    /\ \E i \in DOMAIN rows :
          /\ C16_SplitsAtStarts(rows[i])
          /\ Len(EmittedFor(rows[i])) = 2
          /\ \E j \in DOMAIN rows[i].cells : rows[i].cells[j].x = RSub(Starts(rows[i])[2], R(1))
          /\ LeastX(EmittedFor(rows[i])[2]) = R(-1)

-----------------------------------------------------------------------------
(* C17: sanitizeHeaderRow returns a row with the same page and y whose    *)
(* cells are exactly the header-like cells of the input in their original *)
(* order when at least 4 cells are header-like, and the original row with *)
(* all its cells when fewer than 4 are; a member-ID cell or a bare 1-4    *)
(* digit cell is never header-like.                                        *)

\* the cells of the row that hold a label, in the row's order
C17_Labels(row) == SelectSeq(row.cells, LAMBDA c : c.text \in LabelTexts)

C17_KeepsHeaderLike ==
    pc = "sanitized" =>
        LET row == rows[1]
            out == header[1]
        IN /\ out.page = row.page /\ out.y = row.y
           /\ out.cells = (IF Len(C17_Labels(row)) >= 4 THEN C17_Labels(row) ELSE row.cells)
           /\ \A k \in DOMAIN row.cells :
                 (\/ looksLikeMemberId(row.cells[k].text)
                  \/ IsSerialText(row.cells[k].text)) => ~isHeaderLikeToken(row.cells[k].text)

\* a row of four labels and a member ID: the member ID is dropped
C17_Witness ==
    /\ pc = "sanitized"
    /\ Len(rows[1].cells) = 5
    /\ \E k \in DOMAIN rows[1].cells : looksLikeMemberId(rows[1].cells[k].text)
    /\ Len(header[1].cells) = 4

\* a row of three labels, a serial and a name: returned as it is
C17_WitnessKept ==
    /\ pc = "sanitized"
    /\ Len(C17_Labels(rows[1])) = 3
    /\ Len(rows[1].cells) = 5
    /\ header[1] = rows[1]

-----------------------------------------------------------------------------
(* C18: significance filter.  As stated: with a sample of n likely data   *)
(* rows (the first 30 in document order), a column-start cluster is kept  *)
(* exactly when its count is >= 3 and 5 * count >= n.  This fails: the    *)
(* floor is max(3, floor(0.2 * n)), so that with n = 16 a cluster of 3 is *)
(* kept.                                                                   *)

\* the first 30 rows of the document (every row of these runs is a likely
\* data row)
C18_First30 == SubSeq(rows, 1, IF Len(rows) < 30 THEN Len(rows) ELSE 30)

\* the number of sampled rows with a cell at x
C18_Count(x) ==
    Cardinality({i \in DOMAIN C18_First30 :
                    \E k \in DOMAIN C18_First30[i].cells : C18_First30[i].cells[k].x = x})

\* the x of the columns of the two layouts
C18_ColumnXs == <<R(0), R(10), R(160)>>

\* the stops when exactly the columns satisfying keep are kept
C18_StopsKeeping(keep(_)) ==
    LET kept == SelectSeq(C18_ColumnXs, keep)
    IN IF Len(kept) < 2 THEN <<>>
       ELSE [i \in 1..(Len(kept) - 1) |-> RMid(kept[i], kept[i + 1])]

C18_KeptByFifth ==
    pc = "inferred" =>
        LET n == Len(C18_First30)
            keep(x) == C18_Count(x) >= 3 /\ 5 * C18_Count(x) >= n
        IN stops = C18_StopsKeeping(keep)

(* C18 as amended: a column-start cluster is kept exactly when its count  *)
(* is >= max(3, floor(0.2 * n)), i.e. count >= 3 and count >= n div 5     *)
(* with integer division, n being the number of sampled rows (the first   *)
(* 30 likely data rows in document order).                                 *)
C18_KeptByFloor ==
    pc = "inferred" =>
        LET n == Len(C18_First30)
            keep(x) == C18_Count(x) >= 3 /\ C18_Count(x) >= n \div 5
        IN stops = C18_StopsKeeping(keep)

\* 16 sampled rows, 3 of them of the layout starting at x = 0, whose
\* columns are kept
C18_Witness ==
    /\ pc = "inferred"
    /\ Len(rows) = 16
    /\ C18_Count(R(0)) = 3
    /\ stops # <<>> /\ stops[1] = R(5)

\* more than 30 rows: the 5 rows of the second layout among the first 30
\* do not reach the floor of 6
C18_WitnessSlice ==
    /\ pc = "inferred"
    /\ Len(rows) > 30
    /\ C18_Count(R(10)) = 5
    /\ stops = <<R(80)>>

-----------------------------------------------------------------------------
(* C19: trailing-column recovery.  As stated: the header row's rightmost  *)
(* cell x is appended as an extra column position exactly when no kept    *)
(* cluster lies within 8 units of it and it lies to the right of the      *)
(* rightmost kept cluster.  This fails: it must lie more than 12 units to *)
(* the right of the rightmost kept cluster.                                *)

\* the largest x of the cells of the header row passed in
C19_Rightmost ==
    CHOOSE x \in {header[1].cells[k].x : k \in DOMAIN header[1].cells} :
        \A k \in DOMAIN header[1].cells : RLe(header[1].cells[k].x, x)

C19_NoneNear ==
    \A i \in DOMAIN C8_Significant :
        RLt(R(8), RAbs(RSub(C8_Significant[i], C19_Rightmost)))

\* the header's rightmost x is more than `margin` right of every kept cluster
C19_Beyond(margin) ==
    \A i \in DOMAIN C8_Significant :
        RLt(RAdd(C8_Significant[i], margin), C19_Rightmost)

\* the stops returned for the kept clusters, with the header's rightmost x
\* as one more column position when `appended`
C19_StopsWhen(appended) ==
    LET cols == IF appended THEN Append(C8_Significant, C19_Rightmost) ELSE C8_Significant
    IN IF Len(cols) < 2 THEN C8_Fallback
       ELSE [i \in 1..(Len(cols) - 1) |-> RMid(cols[i], cols[i + 1])]

C19_AppendedWhenRight ==
    (pc = "inferred" /\ Sample(rows) # <<>> /\ header # <<>> /\ header[1].cells # <<>>) =>
        stops = C19_StopsWhen(C19_NoneNear /\ C19_Beyond(R(0)))

(* C19 as amended: the header row's rightmost cell x is appended as an    *)
(* extra column position exactly when it lies more than 12 units to the   *)
(* right of the rightmost kept cluster (so that no kept cluster lies      *)
(* within 8 units of it), or when no cluster is kept.                      *)
C19_AppendedWhenBeyondMargin ==
    (pc = "inferred" /\ Sample(rows) # <<>> /\ header # <<>> /\ header[1].cells # <<>>) =>
        stops = C19_StopsWhen(C19_NoneNear /\ C19_Beyond(R(12)))

\* four kept clusters and the header's rightmost x 80 to the right of the
\* last one: five column positions, four stops, the last one at 200
C19_Witness ==
    /\ pc = "inferred"
    /\ header # <<>> /\ header[1].cells # <<>>
    /\ Len(C8_Significant) = 4
    /\ C19_Rightmost = R(240)
    /\ Len(stops) = 4
    /\ stops[4] = R(200)

-----------------------------------------------------------------------------
(* C20: with stops in ascending order, every row of the table returned by *)
(* collectMainTable holds each cell of its source row in exactly one      *)
(* column: column i where i is the first index with cell.x < stops[i], or *)
(* the last column when there is none, so that a cell with x equal to     *)
(* stops[i] lies in a column after i; the texts of a column are in the    *)
(* row's cell order; with no stops the row is one column of all the cell  *)
(* texts in order.                                                         *)

C20_Ascending == \A i \in 1..(Len(stops) - 1) : RLe(stops[i], stops[i + 1])

\* the indices of the rows that become data rows of the table
C20_DataIndices ==
    {i \in DOMAIN rows : i # headerIdx + 1 /\ ~isHeaderRow(rows[i]) /\ isLikelyDataRow(rows[i])}

\* the rows the table is made of: the sanitized header, then the data rows
C20_SourceRows ==
    <<sanitizeHeaderRow(rows[headerIdx + 1])>> \o
    [k \in 1..Cardinality(C20_DataIndices) |->
        rows[CHOOSE i \in C20_DataIndices :
                 Cardinality({j \in C20_DataIndices : j <= i}) = k]]

\* the cell lies in column i
C20_InColumn(cell, i) ==
    /\ i <= Len(stops) => RLt(cell.x, stops[i])
    /\ \A j \in 1..(i - 1) : ~RLt(cell.x, stops[j])

C20_TextsOf(cells, i) ==
    LET pick == {k \in DOMAIN cells : C20_InColumn(cells[k], i)}
    IN [n \in 1..Cardinality(pick) |->
           cells[CHOOSE k \in pick : Cardinality({j \in pick : j <= k}) = n].text]

C20_Columns(row) ==
    IF stops = <<>> THEN <<Join(CellTexts(row.cells), <<32>>)>>
    ELSE [i \in 1..(Len(stops) + 1) |-> Join(C20_TextsOf(row.cells, i), <<32>>)]

C20_CellsInFirstColumnLeftOfStop ==
    (pc = "collected" /\ headerIdx >= 0 /\ headerIdx < Len(rows) /\ C20_Ascending) =>
        /\ Len(table) = Len(C20_SourceRows)
        /\ \A r \in DOMAIN table :
              /\ table[r] = C20_Columns(C20_SourceRows[r])
              /\ \A k \in DOMAIN C20_SourceRows[r].cells :
                    Cardinality({i \in 1..(Len(stops) + 1) :
                                    C20_InColumn(C20_SourceRows[r].cells[k], i)}) = 1

\* stops at 40 and 80 and a data row with cells at 0, 40, 80 and 160: the
\* cell at 40 is in the second column, the cells at 80 and 160 in the third
C20_Witness ==
    /\ pc = "collected"
    /\ stops = <<R(40), R(80)>>
    /\ Len(table) >= 2
    /\ table[2] = <<SerialText(1), MemberIdText(1), WordText(1) \o <<32>> \o WordText(1)>>

\* no stops: a data row of four cells becomes one column of four texts
C20_WitnessNoStops ==
    /\ pc = "collected"
    /\ stops = <<>>
    /\ Len(table) >= 2
    /\ table[2] = <<SerialText(1) \o <<32>> \o MemberIdText(1) \o <<32>>
                      \o WordText(1) \o <<32>> \o WordText(1)>>

-----------------------------------------------------------------------------
(* Steps of the runs of onPdfChange *)

\* in this step the extraction of run r resolves while r is the current run
ExtractionCompletes(r) ==
    /\ runs[r].at = "extract"
    /\ runs[r].runId = extractRunId
    /\ runs'[r].at = "returned"
    /\ runs'[r].exit # "failed"

-----------------------------------------------------------------------------
(* C11: when no row of the grouped and split document matches the header  *)
(* test, the run that completes the extraction leaves the failure state:   *)
(* the header-not-found warning is set, lastTable is null, the preview     *)
(* header and rows are empty and no table summary is shown; and while that *)
(* warning is shown lastTable stays null, the preview stays empty and no   *)
(* file is downloaded.                                                     *)

C11_NoHeaderRow(rs) == \A i \in DOMAIN rs : ~isHeaderRow(rs[i])

C11_FailureState ==
    /\ ui.warning = HeaderNotFoundWarning
    /\ lastTable = <<>>
    /\ ui.header = <<>>
    /\ ui.rows = <<>>
    /\ ui.tableMeta = <<>>
    /\ ui.processingText = ""
    /\ ui.exportStatus = ""

C11_HeaderNotFoundFails ==
    [][ /\ \A r \in DOMAIN runs :
              (ExtractionCompletes(r) /\ C11_NoHeaderRow(runs'[r].normalizedRows)) =>
                  /\ C11_FailureState'
                  /\ runs'[r].exit = "noHeader"
        /\ ui.warning = HeaderNotFoundWarning =>
              /\ lastTable = <<>> /\ ui.header = <<>> /\ ui.rows = <<>>
              /\ downloads' = downloads
              /\ lastTable' = <<>>
              /\ ui'.exportStatus = "" ]_vars

\* a run on a document of two rows without a header has returned, the
\* warning is shown and nothing has been downloaded
C11_Witness ==
    /\ pc = "hook"
    /\ \E r \in DOMAIN runs :
          /\ runs[r].exit = "noHeader"
          /\ Len(runs[r].normalizedRows) = 2
          /\ C11_NoHeaderRow(runs[r].normalizedRows)
    /\ C11_FailureState
    /\ ~ui.busy
    /\ downloads = <<>>

-----------------------------------------------------------------------------
(* C12: low-confidence column inference.  As stated: when the header is    *)
(* found and the stops are empty, the run stores in lastTable the header   *)
(* row plus every likely data row, each as a single column, and sets the   *)
(* single-column warning.  This fails: a likely data row that matches the  *)
(* header test is left out of the table.                                   *)

\* the header was found and no stops were inferred
C12_Stopless(run) == run.headerIdx # -1 /\ run.stops = <<>>

\* the row as one column holding all its cell texts in order
C12_OneColumn(row) == <<Join(CellTexts(row.cells), <<32>>)>>

\* the header row then the rows at the given indices, one column each
C12_TableOf(run, idxs) ==
    <<C12_OneColumn(sanitizeHeaderRow(run.normalizedRows[run.headerIdx + 1]))>> \o
    [k \in 1..Cardinality(idxs) |->
        C12_OneColumn(run.normalizedRows[CHOOSE i \in idxs :
                                            Cardinality({j \in idxs : j <= i}) = k])]

C12_LikelyDataRows(run) ==
    {i \in DOMAIN run.normalizedRows :
        i # run.headerIdx + 1 /\ isLikelyDataRow(run.normalizedRows[i])}

C12_NotHeaderLike(run, idxs) == {i \in idxs : ~isHeaderRow(run.normalizedRows[i])}

\* the run stored the table t and warned, and is not in a failure state
C12_Stored(run, t) ==
    /\ lastTable' = <<t>>
    /\ ui'.warning = SingleColumnWarning
    /\ ui'.processingText \in {ReadyText, NoDataRowsText}
    /\ ui'.rows = SubSeq(t, 2, Len(t))
    /\ ~ui'.busy
    /\ run.exit = "stored"

C12_StoresEveryLikelyRow ==
    [][ \A r \in DOMAIN runs :
           (ExtractionCompletes(r) /\ C12_Stopless(runs'[r])) =>
               C12_Stored(runs'[r], C12_TableOf(runs'[r], C12_LikelyDataRows(runs'[r]))) ]_vars

(* C12 as amended: when the header is found and the stops are empty, the   *)
(* run stores in lastTable the header row plus every likely data row that  *)
(* does not match the header test, each as a single column, and sets the   *)
(* single-column warning; it never enters the failure state.               *)
C12_StoresLikelyRowsButHeaders ==
    [][ \A r \in DOMAIN runs :
           (ExtractionCompletes(r) /\ C12_Stopless(runs'[r])) =>
               C12_Stored(runs'[r],
                          C12_TableOf(runs'[r],
                                      C12_NotHeaderLike(runs'[r], C12_LikelyDataRows(runs'[r])))) ]_vars

\* a run on a file with a header and no stops has returned: a table of one
\* column is stored, with a data row, and the single-column warning is shown
C12_Witness ==
    /\ pc = "hook"
    /\ \E r \in DOMAIN runs : runs[r].exit = "stored" /\ C12_Stopless(runs[r])
    /\ Len(lastTable) = 1
    /\ Len(lastTable[1]) >= 2
    /\ \A k \in DOMAIN lastTable[1] : Len(lastTable[1][k]) = 1
    /\ ui.warning = SingleColumnWarning

\* the same with a likely data row that matches the header test
C12_WitnessRepeatedHeader ==
    /\ pc = "hook"
    /\ \E r \in DOMAIN runs :
          /\ runs[r].exit = "stored"
          /\ C12_Stopless(runs[r])
          /\ \E i \in C12_LikelyDataRows(runs[r]) : isHeaderRow(runs[r].normalizedRows[i])
    /\ Len(lastTable) = 1
    /\ ui.warning = SingleColumnWarning

-----------------------------------------------------------------------------
(* C21: for a headerIdx in range, the table returned by collectMainTable  *)
(* is the columns of the sanitized header row followed by the columns of  *)
(* exactly the rows other than rows[headerIdx], before or after it, that  *)
(* do not match the header test and have at least 4 cells, a cell of 1 to *)
(* 4 digits and a member-ID cell, in input order; for a headerIdx out of  *)
(* range the table is empty.                                               *)

C21_HasPhrase(row) ==
    \E ph \in HeaderPhrases :
        Includes(normalizeText(Join(CellTexts(row.cells), <<32>>)), ph)

C21_DataLike(row) ==
    /\ Len(row.cells) >= 4
    /\ \E k \in DOMAIN row.cells :
          /\ Len(row.cells[k].text) \in 1..4
          /\ \A c \in Range(row.cells[k].text) : c \in 48..57
    /\ \E k \in DOMAIN row.cells : looksLikeMemberId(row.cells[k].text)

\* the indices (from 1) of the rows that follow the header in the table
C21_Kept ==
    {i \in DOMAIN rows :
        i # headerIdx + 1 /\ ~C21_HasPhrase(rows[i]) /\ C21_DataLike(rows[i])}

C21_HeaderAndDataRows ==
    pc = "collected" =>
        IF headerIdx < 0 \/ headerIdx >= Len(rows) THEN table = <<>>
        ELSE /\ Len(table) = 1 + Cardinality(C21_Kept)
             /\ table[1] = rowToColumns(sanitizeHeaderRow(rows[headerIdx + 1]), stops)
             /\ \A i \in C21_Kept :
                   table[1 + Cardinality({j \in C21_Kept : j <= i})]
                       = rowToColumns(rows[i], stops)

\* the header is the second of three rows, a data row lies before it and a
\* data row after it: the table holds the header and both
C21_Witness ==
    /\ pc = "collected"
    /\ Len(rows) = 3
    /\ headerIdx = 1
    /\ C21_HasPhrase(rows[2])
    /\ C21_Kept = {1, 3}
    /\ Len(table) = 3

\* a likely data row that matches the header test is left out
C21_WitnessRepeatedHeader ==
    /\ pc = "collected"
    /\ headerIdx = 0
    /\ \E i \in DOMAIN rows :
          i > 1 /\ C21_HasPhrase(rows[i]) /\ C21_DataLike(rows[i])
    /\ Len(table) = 1 + Cardinality(C21_Kept)
    /\ Len(table) < Len(rows)

\* headerIdx out of range: nothing is returned
C21_WitnessOutOfRange ==
    /\ pc = "collected"
    /\ headerIdx = Len(rows)
    /\ \E i \in DOMAIN rows : C21_DataLike(rows[i])
    /\ table = <<>>

-----------------------------------------------------------------------------
(* C22: every stop list returned by inferColumnStopsFromDataRows is       *)
(* strictly ascending; when it comes from the header row, it is the list  *)
(* of midpoints of consecutive column starts taken among the x of the     *)
(* sanitized header's cells, at least 34 apart.                            *)

C22_StrictlyAscending == \A i \in 1..(Len(stops) - 1) : RLt(stops[i], stops[i + 1])

\* the header row's rightmost x is taken as one more column position
C22_Trailing == header[1].cells # <<>> /\ C19_NoneNear /\ C19_Beyond(R(12))

\* fewer than 2 column positions come from the data rows and the header
C22_OnHeaderPath ==
    /\ header # <<>>
    /\ \/ Sample(rows) = <<>>
       \/ Len(C8_Significant) + (IF C22_Trailing THEN 1 ELSE 0) < 2

\* the elements of a set of numbers in ascending order
C22_Ascending(S) ==
    [k \in 1..Cardinality(S) |-> CHOOSE x \in S : Cardinality({y \in S : RLe(y, x)}) = k]

\* the stops are the midpoints of starts, 34 or more apart, among xs
C22_MidpointsOfStarts(xs) ==
    \E S \in SUBSET xs :
        /\ Cardinality(S) = Len(stops) + 1
        /\ \A k \in 1..Len(stops) :
              /\ RLe(R(34), RSub(C22_Ascending(S)[k + 1], C22_Ascending(S)[k]))
              /\ stops[k] = RMid(C22_Ascending(S)[k], C22_Ascending(S)[k + 1])

C22_StopsAscending ==
    pc = "inferred" =>
        /\ C22_StrictlyAscending
        /\ (C22_OnHeaderPath /\ stops # <<>>) =>
              C22_MidpointsOfStarts(Range(CellXs(sanitizeHeaderRow(header[1]).cells)))

\* the header path with a label 20 from the first: it is no column start,
\* and the first stop lies between the labels at 0 and 80
C22_Witness ==
    /\ pc = "inferred"
    /\ C22_OnHeaderPath
    /\ header[1] = CrowdedHeader
    /\ stops = <<R(40), R(100), R(140)>>

\* the data-row path: three stops between four kept clusters
C22_WitnessDataPath ==
    /\ pc = "inferred"
    /\ ~C22_OnHeaderPath
    /\ Len(C8_Significant) = 4
    /\ Len(stops) >= 3
    /\ C22_StrictlyAscending

-----------------------------------------------------------------------------
(* C27 *)

\* where fragment c lies in the grouped rows: the pairs <<row, position>>
C27_PlacesOf(c) ==
    {p \in UNION {{<<r, k>> : k \in DOMAIN grouped[r].cells} : r \in DOMAIN grouped} :
        grouped[p[1]].cells[p[2]] = c}

\* C27: groupIntoRows partitions its input: every input fragment lies in
\* exactly one row at exactly one position, no row is empty, every cell of
\* a row is one of the input fragments, and every cell has its row's page.
C27_Partition ==
    pc = "groupDone" =>
        /\ \A i \in DOMAIN frags : Cardinality(C27_PlacesOf(frags[i])) = 1
        /\ \A r \in DOMAIN grouped :
              /\ grouped[r].cells # <<>>
              /\ \A k \in DOMAIN grouped[r].cells :
                    /\ grouped[r].cells[k] \in Range(frags)
                    /\ grouped[r].cells[k].page = grouped[r].page

\* three fragments grouped into a row of two and a row of one
C27_Witness ==
    /\ pc = "groupDone"
    /\ Len(frags) = MaxFrags
    /\ Len(grouped) = 2
    /\ \E r \in DOMAIN grouped : Len(grouped[r].cells) = 2

-----------------------------------------------------------------------------
(* C29 *)

\* the fragments in the order of the walk
C29_Sorted == StableSort(frags, FragBefore)

\* the rows that exist when the walk reaches fragment i
C29_RowsBefore(i) == GroupWalk(SubSeq(C29_Sorted, 1, i - 1), yTol)

\* the existing rows that match fragment i: same page, y within the tolerance
C29_Matches(i) ==
    LET rs == C29_RowsBefore(i)
    IN {e \in DOMAIN rs :
           /\ rs[e].page = C29_Sorted[i].page
           /\ RLe(RAbs(RSub(rs[e].y, C29_Sorted[i].y)), yTol)}

\* the positions in the walk of the cells of row r
C29_PositionsOf(r) ==
    {i \in DOMAIN C29_Sorted : C29_Sorted[i] \in Range(grouped[r].cells)}

\* C29: at every step of the walk at most one existing row matches the
\* fragment, and it is the row created last, which has the fragment's
\* page; so every output row is a contiguous run of the sorted fragments.
C29_OneCandidate ==
    pc = "groupDone" =>
        /\ \A i \in DOMAIN C29_Sorted :
              /\ Cardinality(C29_Matches(i)) <= 1
              /\ \A e \in C29_Matches(i) : e = Len(C29_RowsBefore(i))
        /\ \A r \in DOMAIN grouped :
              \A i, j \in C29_PositionsOf(r) : i..j \subseteq C29_PositionsOf(r)

\* two rows exist when the third fragment joins the second of them
C29_Witness ==
    /\ pc = "groupDone"
    /\ Len(frags) = MaxFrags
    /\ Len(C29_RowsBefore(MaxFrags)) = 2
    /\ C29_Matches(MaxFrags) = {2}

-----------------------------------------------------------------------------
(* C28 *)

C28_NoMemberId(row) == \A k \in DOMAIN row.cells : ~looksLikeMemberId(row.cells[k].text)

\* the serial-like cells of a row: 1 to 4 digits
C28_Serials(row) ==
    {k \in DOMAIN row.cells : IsSerialText(normalizeText(row.cells[k].text))}

\* C28: a row without a member-ID cell, a header row among them, comes out
\* of explodeMultiRecordRows as the single original row with its cells and
\* their x unchanged, whatever numeric cells and gaps it holds.
C28_NoIdNoSplit ==
    pc # "grouped" =>
        \A i \in DOMAIN rows :
            C28_NoMemberId(rows[i]) => EmittedFor(rows[i]) = <<rows[i]>>

\* a line of eight cells or more without a member ID, with two serial cells
\* 140 units or more apart, came out as it went in, below the header row
C28_Witness ==
    /\ pc = "exploded"
    /\ C28_NoMemberId(rows[2])
    /\ Len(rows[2].cells) >= 8
    /\ \E a, b \in C28_Serials(rows[2]) :
          RLe(R(140), RSub(rows[2].cells[b].x, rows[2].cells[a].x))
    /\ C28_NoMemberId(rows[1])
    /\ exploded = rows

-----------------------------------------------------------------------------
(* C30 *)

C30_LikelyRows == SelectSeq(rows, isLikelyDataRow)

\* what the header row alone gives: nothing without a header row
C30_HeaderStops ==
    IF header = <<>> THEN <<>>
    ELSE inferColumnStopsFromHeaderRow(sanitizeHeaderRow(header[1]))

\* C30: when fewer than 3 of the rows are likely data rows no cluster of
\* the sample is significant, and the stops returned are those derived
\* from the sanitized header row, the empty list when none is given.
C30_HeaderStopsWhenFewRows ==
    (pc = "inferred" /\ Len(C30_LikelyRows) < 3) =>
        /\ DataColumnXs(Sample(rows)) = <<>>
        /\ stops = C30_HeaderStops

\* two likely data rows with each cell of one 4 to the right of a cell of
\* the other, one row that is not a likely data row, and the header line's
\* four stops returned
C30_Witness ==
    /\ pc = "inferred"
    /\ Len(rows) = 3
    /\ Len(C30_LikelyRows) = 2
    /\ DataRowAt(0) \in Range(C30_LikelyRows)
    /\ NearRow \in Range(C30_LikelyRows)
    /\ header = <<HeaderLine>>
    /\ stops = <<R(20), R(60), R(100), R(140)>>

\* two equal likely data rows and no header row: no stops
C30_WitnessNoHeader ==
    /\ pc = "inferred"
    /\ Len(C30_LikelyRows) = 2
    /\ C30_LikelyRows[1] = C30_LikelyRows[2]
    /\ header = <<>>
    /\ stops = <<>>

-----------------------------------------------------------------------------
(* C24 *)

\* in this step run r returns although a later run has been started
C24_SupersededReturns(r) ==
    /\ runs[r].runId # extractRunId
    /\ runs[r].at # "returned"
    /\ runs'[r].at = "returned"

C24_AllReturned == runs # <<>> /\ \A r \in DOMAIN runs : runs[r].at = "returned"

\* C24: a run that has been superseded never writes lastTable, warning,
\* processingText, header or rows, whether what it awaits resolves or
\* rejects; and when every run has finished after a change event that
\* selected a file, the state is the one the run started last has left.
C24_SupersededNeverWrites ==
    /\ [][\A r \in DOMAIN runs :
            C24_SupersededReturns(r) =>
                /\ lastTable' = lastTable
                /\ ui'.warning = ui.warning
                /\ ui'.processingText = ui.processingText
                /\ ui'.header = ui.header
                /\ ui'.rows = ui.rows]_vars
    /\ [](C24_AllReturned /\ ui.pdfName # <<>> =>
            LET last == runs[Len(runs)] IN
            /\ last.exit = "stored" =>
                  /\ lastTable # <<>>
                  /\ ui.warning \in {"", SingleColumnWarning}
                  /\ ui.processingText \in {ReadyText, NoDataRowsText}
            /\ last.exit = "noHeader" =>
                  lastTable = <<>> /\ ui.warning = HeaderNotFoundWarning
            /\ last.exit = "failed" =>
                  lastTable = <<>> /\ ui.warning = ExtractionFailedWarning)

-----------------------------------------------------------------------------
(* C25 *)

\* C25: once the most recent change event has selected no file, lastTable
\* is null and the preview header and rows are empty, also when a run
\* started by an earlier change event finishes afterwards.
C25_ClearedStaysCleared ==
    ui.pdfName = <<>> => lastTable = <<>> /\ ui.header = <<>> /\ ui.rows = <<>>

-----------------------------------------------------------------------------
(* C26 *)

C26_LastRunUnfinished == runs # <<>> /\ runs[Len(runs)].at # "returned"

\* C26: busy is true exactly while the run started last has not finished,
\* a superseded run that finishes leaves busy as it is, and when every
\* awaited promise settles busy becomes false in the end.
C26_BusyWhileLastRunUnfinished ==
    /\ [](ui.busy <=> C26_LastRunUnfinished)
    /\ [][\A r \in DOMAIN runs :
            (/\ runs[r].runId # extractRunId
             /\ runs[r].at # "returned"
             /\ runs'[r].at = "returned") => ui'.busy = ui.busy]_vars
    /\ (ui.busy ~> ~ui.busy)

\* the first of two runs has failed after the second was started, and busy
\* is still true while the second awaits its extraction
C26_Witness ==
    /\ pc = "hook"
    /\ Len(runs) = 2
    /\ runs[1].exit = "failed"
    /\ runs[2].at = "extract"
    /\ ui.busy

\* both runs have finished, the second on the error path after the first
\* returned as superseded, and busy is false
C26_WitnessIdle ==
    /\ pc = "hook"
    /\ Len(runs) = 2
    /\ runs[1].exit = "stale"
    /\ runs[2].exit = "failed"
    /\ ~ui.busy

-----------------------------------------------------------------------------
(* C23 *)

====
